---- MODULE Spec2Model ----
(***************************************************************************)
(* Model of the olio crate: the MemHandle advice arbitration               *)
(* (src/mem/handle.rs) and the positioned readers ReadPos and ReadSlice    *)
(* (src/fs/read.rs, src/fs/pos_read.rs), and the GatheringReader           *)
(* (src/io/gather.rs).                                                     *)
(***************************************************************************)
EXTENDS Integers, Sequences, FiniteSets, TLC

(***************************************************************************)
(* Bounds of the model.                                                    *)
(***************************************************************************)
\* Handles of one buffer in the one-at-a-time specification.
MaxHandles == 3
\* Handles (one thread each) in the concurrent specification.
MaxConcHandles == 2
\* Width in bits of the words that stand for u64 and i64.
WordBits == 3
\* Longest underlying file.
MaxFileLen == 4
\* Longest buffer handed to a read.
MaxBuf == 3
\* Reader threads, and the length of the slice each reads, in the
\* concurrent readers' specification.
MaxReaders == 2
SliceLen == 2
\* How far from either end of a counter field's range the values drawn for
\* decr_advisors and incr_advisors reach.
MaxCount == 3
\* Most buffers under a GatheringReader, and the longest of them.
MaxGather == 3
MaxChunk == 2

(***************************************************************************)
(* MemAdvice: the enum's repr values, src/mem/handle.rs:83-87.  The derived *)
(* Ord is the order of the discriminants, Normal < Random < Sequential.    *)
(***************************************************************************)
Normal == 0
Random == 1023
Sequential == 1047552
MemAdvice == {Normal, Random, Sequential}

\* The literals of incr_advisors/decr_advisors: 0x3FF and the shift 10.
FieldMax == 1023
FieldBits == 10

Handles == 1..MaxHandles

VARIABLES
    hstate,     \* MemHandle lifetime: "unborn", "live", "dropping", "dead"
    hadvice,    \* MemHandle.advice, the handle's own level
    advisors,   \* Mem.advisors, the shared packed counter
    os,         \* the level the platform was last advised of (baseline Normal)
    pc,         \* per handle: position of its thread inside advise/drop
    prior,      \* adjust_advice argument prior
    advice,     \* adjust_advice argument advice
    adv,        \* adjust_advice local adv (the value the CAS expects)
    new_top,    \* adjust_advice local new_top, kept for the platform call
    retried,    \* whether some compare-and-swap has failed and was retried
    ret,        \* what the step just taken returned from advise, if it did
    file,       \* the bytes of the underlying File (never written)
    cursor,     \* the operating system's own cursor of the File
    windows,    \* cfg(windows): pread is seek_read, which moves the cursor
    which,      \* the reader the run is about: "pos", "slice" or "none"
    rp,         \* a ReadPos: [pos, length]
    rs,         \* a ReadSlice: [start, pos, end]
    last,       \* the last read or seek on the reader and what it returned
    stage,      \* "reading": only reads with nonempty buffers since new;
                \* "drained": one of them has returned 0; else "other"
    total,      \* bytes returned by the reads while stage is not "other"
    cr,         \* per reader thread: its program position and its ReadPos
    pair,       \* two readers over the same file: a ReadSlice and a
                \* subslice or its independent twin, or a reader and its
                \* clone
    crowd,      \* per level: live handles at that level beyond Handles,
                \* each idle, told apart by nothing but their level
    calc,       \* an application of decr_advisors or incr_advisors to a
                \* packed counter value: its inputs and, once applied, its
                \* result
    gr          \* a GatheringReader, the buffers it was made over, the
                \* read call in progress and the bytes its reads returned

memVars == <<hstate, hadvice, advisors, os, pc, prior, advice, adv,
             new_top, retried, ret, crowd, calc>>

readVars == <<file, cursor, windows, which, rp, rs, last,
              stage, total, cr, pair>>

gatherVars == <<gr>>

vars == <<memVars, readVars, gatherVars>>

(***************************************************************************)
(* Bit arithmetic on uadv values (all values stay below 2^20).             *)
(***************************************************************************)
\* The operands are evaluated once, when the function is applied.
BitAndOf[a \in Nat, b \in Nat] ==
    IF a = 0 \/ b = 0 THEN 0
    ELSE (a % 2) * (b % 2) + 2 * BitAndOf[a \div 2, b \div 2]

BitAnd(a, b) == BitAndOf[a, b]

BitOrOf[a \in Nat, b \in Nat] ==
    IF a = 0 THEN b
    ELSE IF b = 0 THEN a
    ELSE (IF a % 2 = 1 \/ b % 2 = 1 THEN 1 ELSE 0)
         + 2 * BitOrOf[a \div 2, b \div 2]

BitOr(a, b) == BitOrOf[a, b]

Shr(x, n) == x \div (2 ^ n)
Shl(x, n) == x * (2 ^ n)

(***************************************************************************)
(* Pure functions of src/mem/handle.rs.                                    *)
(***************************************************************************)
\* Mutant: the prior level's field is cleared from the counter but the
\* decremented count is never put back.
decr_advisors_lost(a, p) ==
    IF p # Normal THEN a - BitAnd(a, p) ELSE a

\* Mutant: the prior level's field is left as it is.
decr_advisors_none(a, p) == a

\* Mutant: the count is decremented without the "p > 0" test, so an empty
\* field borrows from what lies above it.
decr_advisors_floorless(a, p) ==
    IF p # Normal
    THEN LET p0 == BitAnd(a, p)
             a1 == a - p0
             p1 == IF p = Sequential THEN Shr(p0, FieldBits) ELSE p0
         IN  a1 + (IF p = Sequential THEN Shl(p1 - 1, FieldBits) ELSE p1 - 1)
    ELSE a

\* Mutant: the Sequential count is decremented without being shifted down
\* to bit 0 first, so the borrow runs into the Random field.
decr_advisors_unshifted(a, p) ==
    IF p # Normal
    THEN LET p0 == BitAnd(a, p)
             a1 == a - p0
             p2 == IF p0 > 0 THEN p0 - 1 ELSE p0
         IN  BitOr(a1, p2)
    ELSE a

decr_advisors(a, p) ==
    IF p # Normal
    THEN LET p0 == BitAnd(a, p)
             a1 == a - p0
             p1 == IF p = Sequential THEN Shr(p0, FieldBits) ELSE p0
             p2 == IF p1 > 0 THEN p1 - 1 ELSE p1
             p3 == IF p = Sequential THEN Shl(p2, FieldBits) ELSE p2
         IN  BitOr(a1, p3)
    ELSE a

\* Mutant: the new level's field is not incremented.
incr_advisors_none(a, v) == a

\* Mutant: the count is incremented without the "cur < 0x3FF" test, so a
\* full Random field carries into the Sequential field and a full
\* Sequential field carries out of the counter's 20 bits.
incr_advisors_wrap(a, v) ==
    LET cur == BitAnd(a, v)
        a1  == a - cur
    IN  CASE v = Normal -> a1
          [] v = Random -> a1 + cur + 1
          [] v = Sequential -> a1 + Shl(Shr(cur, FieldBits) + 1, FieldBits)

incr_advisors(a, v) ==
    LET cur == BitAnd(a, v)
        a1  == a - cur
    IN  CASE v = Normal -> a1
          [] v = Random ->
                BitOr(a1, IF cur < FieldMax THEN cur + 1 ELSE cur)
          [] v = Sequential ->
                LET c1 == Shr(cur, FieldBits)
                    c2 == IF c1 < FieldMax THEN c1 + 1 ELSE c1
                IN  BitOr(a1, Shl(c2, FieldBits))

\* Mutant: the Random field is looked at before the Sequential field.
top_most_random_first(a) ==
    IF BitAnd(a, Random) > 0 THEN Random
    ELSE IF BitAnd(a, Sequential) > 0 THEN Sequential
    ELSE Normal

top_most(a) ==
    IF BitAnd(a, Sequential) > 0 THEN Sequential
    ELSE IF BitAnd(a, Random) > 0 THEN Random
    ELSE Normal

(***************************************************************************)
(* Return values of advise: Ok(level) or Err(MemAdviseError).              *)
(***************************************************************************)
NoRet ==
    [kind |-> "none", h |-> 0, prior |-> 0, advice |-> 0, val |-> 0]
OkRet(h, p, a, v) ==
    [kind |-> "ok", h |-> h, prior |-> p, advice |-> a, val |-> v]
ErrRet(h, p, a) ==
    [kind |-> "err", h |-> h, prior |-> p, advice |-> a, val |-> 0]

\* No handles beyond Handles, and no function application under study.
NoCrowd == [lv \in {Random, Sequential} |-> 0]

NoCalc == [stage |-> "none", f |-> "", a |-> 0, lv |-> Normal, out |-> 0]

(***************************************************************************)
(* State after MemHandle::new: one live handle at Normal, counter 0.       *)
(***************************************************************************)
InitMem ==
    /\ hstate = [h \in Handles |-> IF h = 1 THEN "live" ELSE "unborn"]
    /\ hadvice = [h \in Handles |-> Normal]
    /\ advisors = 0
    /\ os = Normal
    /\ pc = [h \in Handles |-> "idle"]
    /\ prior = [h \in Handles |-> Normal]
    /\ advice = [h \in Handles |-> Normal]
    /\ adv = [h \in Handles |-> 0]
    /\ new_top = [h \in Handles |-> Normal]
    /\ retried = FALSE
    /\ ret = NoRet
    /\ crowd = NoCrowd
    /\ calc = NoCalc

\* The end of adjust_advice for handle h: advise hands the result to its
\* caller; drop discards it (".ok()") and the handle, with its advice field,
\* is gone (a dead handle's field reads Normal in the model).
Finish(h, r) ==
    /\ pc' = [pc EXCEPT ![h] = "idle"]
    /\ prior' = [prior EXCEPT ![h] = Normal]
    /\ advice' = [advice EXCEPT ![h] = Normal]
    /\ adv' = [adv EXCEPT ![h] = 0]
    /\ new_top' = [new_top EXCEPT ![h] = Normal]
    /\ retried' = retried
    /\ IF hstate[h] = "dropping"
       THEN /\ hstate' = [hstate EXCEPT ![h] = "dead"]
            /\ hadvice' = [hadvice EXCEPT ![h] = Normal]
            /\ ret' = NoRet
       ELSE /\ hstate' = hstate
            /\ hadvice' = hadvice
            /\ ret' = r

\* Mutant: the clone starts at the level of the handle it is cloned from.
MemHandle_clone_copy(h, c, n) ==
    /\ UNCHANGED <<readVars, crowd, calc, gatherVars>>
    /\ hstate[h] = "live" /\ pc[h] = "idle"
    /\ c <= n /\ hstate[c] = "unborn"
    /\ \A d \in Handles : d < c => hstate[d] # "unborn"
    /\ hstate' = [hstate EXCEPT ![c] = "live"]
    /\ hadvice' = [hadvice EXCEPT ![c] = hadvice[h]]
    /\ ret' = NoRet
    /\ UNCHANGED <<advisors, os, pc, prior, advice, adv, new_top,
                   retried>>

\* Clone for MemHandle: handle c, the next unborn one of at most n, is
\* created from the live handle h.
MemHandle_clone(h, c, n) ==
    /\ UNCHANGED <<readVars, crowd, calc, gatherVars>>
    /\ hstate[h] = "live" /\ pc[h] = "idle"
    /\ c <= n /\ hstate[c] = "unborn"
    /\ \A d \in Handles : d < c => hstate[d] # "unborn"
    /\ hstate' = [hstate EXCEPT ![c] = "live"]
    /\ hadvice' = [hadvice EXCEPT ![c] = Normal]
    /\ ret' = NoRet
    /\ UNCHANGED <<advisors, os, pc, prior, advice, adv, new_top,
                   retried>>

\* Mutant: advise calls adjust_advice also when the level is the handle's
\* own.
MemHandle_advise_always(h, a) ==
    /\ UNCHANGED <<readVars, crowd, calc, gatherVars>>
    /\ hstate[h] = "live" /\ pc[h] = "idle"
    /\ hadvice' = [hadvice EXCEPT ![h] = a]
    /\ ret' = NoRet
    /\ pc' = [pc EXCEPT ![h] = "cas"]
    /\ prior' = [prior EXCEPT ![h] = hadvice[h]]
    /\ advice' = [advice EXCEPT ![h] = a]
    /\ adv' = [adv EXCEPT ![h] = advisors]
    /\ UNCHANGED <<hstate, advisors, os, new_top, retried>>

\* MemHandle::advise up to the first access to the shared counter: the
\* swap of the handle's own level, the early return when it did not change,
\* and otherwise adjust_advice's "let mut adv = self.advisors.load(Acquire)".
\* The swap is on the handle's own atomic field; here each handle is used
\* by one thread, no other thread touches the field, and the swap is one
\* step with the load.  (SpecShared has the handle that threads share.)
MemHandle_advise(h, a) ==
    /\ UNCHANGED <<readVars, crowd, calc, gatherVars>>
    /\ hstate[h] = "live" /\ pc[h] = "idle"
    /\ hadvice' = [hadvice EXCEPT ![h] = a]
    /\ IF a = hadvice[h]
       THEN /\ ret' = OkRet(h, hadvice[h], a, hadvice[h])
            /\ UNCHANGED <<pc, prior, advice, adv>>
       ELSE /\ ret' = NoRet
            /\ pc' = [pc EXCEPT ![h] = "cas"]
            /\ prior' = [prior EXCEPT ![h] = hadvice[h]]
            /\ advice' = [advice EXCEPT ![h] = a]
            /\ adv' = [adv EXCEPT ![h] = advisors]
    /\ UNCHANGED <<hstate, advisors, os, new_top, retried>>

\* Mutant: drop releases the handle without adjusting the counter.
MemHandle_drop_forget(h) ==
    /\ UNCHANGED <<readVars, crowd, calc, gatherVars>>
    /\ hstate[h] = "live" /\ pc[h] = "idle"
    /\ ret' = NoRet
    /\ hstate' = [hstate EXCEPT ![h] = "dead"]
    /\ hadvice' = [hadvice EXCEPT ![h] = Normal]
    /\ UNCHANGED <<pc, prior, advice, adv, advisors, os, new_top, retried>>

\* Drop for MemHandle up to the first access to the shared counter: the
\* load of adjust_advice(advice, Normal) when the handle is not at Normal.
MemHandle_drop(h) ==
    /\ UNCHANGED <<readVars, crowd, calc, gatherVars>>
    /\ hstate[h] = "live" /\ pc[h] = "idle"
    /\ ret' = NoRet
    /\ IF hadvice[h] # Normal
       THEN /\ hstate' = [hstate EXCEPT ![h] = "dropping"]
            /\ pc' = [pc EXCEPT ![h] = "cas"]
            /\ prior' = [prior EXCEPT ![h] = hadvice[h]]
            /\ advice' = [advice EXCEPT ![h] = Normal]
            /\ adv' = [adv EXCEPT ![h] = advisors]
       ELSE /\ hstate' = [hstate EXCEPT ![h] = "dead"]
            /\ UNCHANGED <<pc, prior, advice, adv>>
    /\ UNCHANGED <<hadvice, advisors, os, new_top, retried>>

\* The value the loop body computes from adv.
adjust_new_adv(h) == incr_advisors(decr_advisors(adv[h], prior[h]), advice[h])

\* Mutant: the exchange does not compare, it stores the value computed from
\* the (possibly stale) adv.
cas_expected_blind(h) == TRUE

\* Whether compare_exchange_weak finds the expected value adv.
cas_expected(h) == advisors = adv[h]

\* Mutant: after a successful exchange the platform call is made whether or
\* not the top-most level changed.
adjust_cas_ok_always_calls(h) ==
    /\ UNCHANGED <<readVars, crowd, calc, gatherVars>>
    /\ pc[h] = "cas"
    /\ cas_expected(h)
    /\ advisors' = adjust_new_adv(h)
    /\ pc' = [pc EXCEPT ![h] = "madvise"]
    /\ new_top' = [new_top EXCEPT ![h] = top_most(adjust_new_adv(h))]
    /\ adv' = [adv EXCEPT ![h] = 0]
    /\ ret' = NoRet
    /\ UNCHANGED <<hstate, hadvice, prior, advice, retried, os>>

\* adjust_advice: the compare_exchange_weak succeeds.
adjust_cas_ok(h) ==
    /\ UNCHANGED <<readVars, crowd, calc, gatherVars>>
    /\ pc[h] = "cas"
    /\ cas_expected(h)
    /\ advisors' = adjust_new_adv(h)
    /\ IF top_most(adjust_new_adv(h)) # top_most(adv[h])
       THEN /\ pc' = [pc EXCEPT ![h] = "madvise"]
            /\ new_top' = [new_top EXCEPT ![h] = top_most(adjust_new_adv(h))]
            /\ adv' = [adv EXCEPT ![h] = 0]    \* adv is not read again
            /\ ret' = NoRet
            /\ UNCHANGED <<hstate, hadvice, prior, advice, retried>>
       ELSE Finish(h, OkRet(h, prior[h], advice[h],
                            top_most(adjust_new_adv(h))))
    /\ UNCHANGED os

\* Mutant: a failed exchange leaves adv as it was ("Err(_) => ()"), so the
\* next attempt expects the same stale value.
adjust_cas_fail_stale(h) ==
    /\ UNCHANGED <<readVars, crowd, calc, gatherVars>>
    /\ pc[h] = "cas"
    /\ advisors # adv[h]
    /\ retried' = TRUE
    /\ ret' = NoRet
    /\ UNCHANGED <<hstate, hadvice, advisors, os, pc, prior, advice,
                   new_top, adv>>

\* adjust_advice: the compare_exchange_weak fails because the counter holds
\* another value x; adv = x and the loop runs again.  (A spurious failure
\* returns x = adv and changes nothing: a stuttering step.)
adjust_cas_fail(h) ==
    /\ UNCHANGED <<readVars, crowd, calc, gatherVars>>
    /\ pc[h] = "cas"
    /\ advisors # adv[h]
    /\ adv' = [adv EXCEPT ![h] = advisors]
    /\ retried' = TRUE
    /\ ret' = NoRet
    /\ UNCHANGED <<hstate, hadvice, advisors, os, pc, prior, advice,
                   new_top>>

\* Mutant: a failed platform call rolls the counter back.
platform_advise_rollback(h, ok) ==
    /\ UNCHANGED <<readVars, crowd, calc, gatherVars>>
    /\ pc[h] = "madvise"
    /\ IF ok
       THEN /\ os' = new_top[h]
            /\ advisors' = advisors
            /\ Finish(h, OkRet(h, prior[h], advice[h], new_top[h]))
       ELSE /\ os' = os
            /\ advisors' = incr_advisors(decr_advisors(advisors, advice[h]),
                                         prior[h])
            /\ Finish(h, ErrRet(h, prior[h], advice[h]))

\* Mutant: when the platform call fails, the handle's own level is put
\* back to what it was before the call.
platform_advise_restores_level(h, ok) ==
    /\ UNCHANGED <<readVars, crowd, calc, gatherVars>>
    /\ pc[h] = "madvise"
    /\ os' = IF ok THEN new_top[h] ELSE os
    /\ pc' = [pc EXCEPT ![h] = "idle"]
    /\ prior' = [prior EXCEPT ![h] = Normal]
    /\ advice' = [advice EXCEPT ![h] = Normal]
    /\ adv' = [adv EXCEPT ![h] = 0]
    /\ new_top' = [new_top EXCEPT ![h] = Normal]
    /\ IF hstate[h] = "dropping"
       THEN /\ hstate' = [hstate EXCEPT ![h] = "dead"]
            /\ hadvice' = [hadvice EXCEPT ![h] = Normal]
            /\ ret' = NoRet
       ELSE /\ hstate' = hstate
            /\ hadvice' = IF ok THEN hadvice
                          ELSE [hadvice EXCEPT ![h] = prior[h]]
            /\ ret' = IF ok THEN OkRet(h, prior[h], advice[h], new_top[h])
                      ELSE ErrRet(h, prior[h], advice[h])
    /\ UNCHANGED <<advisors, retried>>

\* advise(&self.mem, new_top)?: the platform call succeeds (ok) or returns
\* an error code.
platform_advise(h, ok) ==
    /\ UNCHANGED <<readVars, crowd, calc, gatherVars>>
    /\ pc[h] = "madvise"
    /\ IF ok
       THEN /\ os' = new_top[h]
            /\ Finish(h, OkRet(h, prior[h], advice[h], new_top[h]))
       ELSE /\ os' = os
            /\ Finish(h, ErrRet(h, prior[h], advice[h]))
    /\ UNCHANGED advisors

AllIdle == \A h \in Handles : pc[h] = "idle"

(***************************************************************************)
(* The positioned readers, src/fs/read.rs.  u64 and i64 are modelled by    *)
(* words of WordBits bits.                                                 *)
(***************************************************************************)
U64Max == 2 ^ WordBits - 1
I64Max == 2 ^ (WordBits - 1) - 1
I64Min == 0 - 2 ^ (WordBits - 1)
U64 == 0..U64Max
I64 == I64Min..I64Max
Readers == 1..MaxReaders

Min(a, b) == IF a <= b THEN a ELSE b

\* The content of the tests' files, b"1234567890" repeated: the byte at
\* offset i.
Byte(i) == (i + 1) % 10
FileOf(n) == [i \in 1..n |-> Byte(i - 1)]
Files == {FileOf(n) : n \in 0..MaxFileLen}

\* Option<u64> of the checked arithmetic.
Some(v) == [some |-> TRUE, v |-> v]
None == [some |-> FALSE, v |-> 0]
checked_add(a, b) == IF a + b > U64Max THEN None ELSE Some(a + b)
checked_sub(a, b) == IF b > a THEN None ELSE Some(a - b)

\* PosRead::pread on a File (read_at / seek_read): the possible outcomes of
\* reading len bytes at offset off.  A read may be short, returns 0 only
\* for an empty buffer or at or beyond the end of the file, or fails.
pread(off, len) ==
    {[kind |-> "err_io", n |-> 0]} \cup
    {[kind |-> "ok", n |-> k] :
        k \in IF len = 0 \/ off >= Len(file) THEN {0}
              ELSE 1..Min(len, Len(file) - off)}

\* The bytes a pread of n bytes at off stores in the buffer.
Data(off, n) == SubSeq(file, off + 1, off + n)

\* The File's cursor after a pread of n bytes at off: seek_read moves it,
\* read_at does not.
CursorAfter(off, n) == IF windows THEN off + n ELSE cursor

\* The builds: with overflow checks (debug) arithmetic overflow panics,
\* without them (release) it wraps.
OverflowChecks == BOOLEAN

\* "(-offset) as u64" of seek_from, for offset < 0, in a build with
\* (checks) or without overflow checks.  The negation of the most negative
\* value overflows: it panics, or wraps to the same value, whose cast is
\* 2^(WordBits-1).
neg_as_u64(offset, checks) ==
    IF offset = I64Min
    THEN [panic |-> checks, v |-> I64Min + 2 ^ WordBits]
    ELSE [panic |-> FALSE, v |-> 0 - offset]

\* seek_from of ReadPos and of ReadSlice up to the use of checked_pos: the
\* position found, or the error, or the panic of the negation.
seek_from_pos(origin, offset, checks) ==
    IF offset < 0
    THEN IF neg_as_u64(offset, checks).panic
         THEN [kind |-> "panic", v |-> 0]
         ELSE LET c == checked_sub(origin, neg_as_u64(offset, checks).v)
              IN  IF c.some THEN [kind |-> "some", v |-> c.v]
                  ELSE [kind |-> "invalid", v |-> 0]
    ELSE LET c == checked_add(origin, offset)
         IN  IF c.some THEN [kind |-> "some", v |-> c.v]
             ELSE [kind |-> "other", v |-> 0]

\* SeekFrom: Start(u64), End(i64), Current(i64).
SeekFroms ==
    {[whence |-> "Start", off |-> p] : p \in U64}
    \cup {[whence |-> w, off |-> o] : w \in {"End", "Current"}, o \in I64}

\* What is recorded of the last read or seek: the operation, its argument
\* (buffer length or offset), the position before it, the outcome (kind
\* "ok", "invalid" for ErrorKind::InvalidInput, "other" for
\* ErrorKind::Other, "err_io" for a failure of the capability, "panic"),
\* the value returned, whether and how the capability was called, and the
\* bytes stored in the buffer.
NoLast ==
    [op |-> "none", whence |-> "", arg |-> 0, pos0 |-> 0, kind |-> "",
     val |-> 0, called |-> FALSE, reqOff |-> 0, reqLen |-> 0, data |-> <<>>]
LastRead(buflen, pos0, kind, n, called, reqOff, reqLen) ==
    [op |-> "read", whence |-> "", arg |-> buflen, pos0 |-> pos0,
     kind |-> kind, val |-> n, called |-> called, reqOff |-> reqOff,
     reqLen |-> reqLen, data |-> IF called THEN Data(reqOff, n) ELSE <<>>]
LastSeek(from, pos0, kind, v) ==
    [op |-> "seek", whence |-> from.whence, arg |-> from.off, pos0 |-> pos0,
     kind |-> kind, val |-> v, called |-> FALSE, reqOff |-> 0, reqLen |-> 0,
     data |-> <<>>]

LastTell(pos0, v) ==
    [op |-> "tell", whence |-> "", arg |-> 0, pos0 |-> pos0, kind |-> "ok",
     val |-> v, called |-> FALSE, reqOff |-> 0, reqLen |-> 0, data |-> <<>>]

\* The sequence of reads since construction, for the reader's drain: a
\* seek or a read with an empty buffer ends it.
StageAfterRead(buflen, kind, n) ==
    IF stage = "other" \/ buflen = 0 THEN "other"
    ELSE IF kind = "ok" /\ n = 0 THEN "drained"
    ELSE stage
TotalAfterRead(buflen, n) ==
    IF stage = "other" \/ buflen = 0 THEN 0 ELSE total + n

NoReadPos == [pos |-> 0, length |-> 0]
NoReadSlice == [start |-> 0, pos |-> 0, end |-> 0]
NoThread == [pc |-> "none", p |-> 0, pos |-> 0, buf |-> <<>>]

\* No pair of readers.
NoPair ==
    [stage |-> "none", a |-> NoReadSlice, b |-> NoReadSlice, who |-> "",
     same |-> TRUE, args |-> <<>>]

\* No GatheringReader.
NoGather ==
    [stage |-> "none", bufs |-> <<>>, current |-> <<>>, pos |-> 0,
     remainder |-> <<>>, buflen |-> 0, depth |-> 0, n |-> 0, out |-> <<>>]

\* No reader exists: the state of the reader variables in the
\* specifications of MemHandle.
NoReaders ==
    /\ gr = NoGather
    /\ file = <<>> /\ cursor = 0 /\ windows = FALSE
    /\ which = "none" /\ rp = NoReadPos /\ rs = NoReadSlice
    /\ last = NoLast /\ stage = "other" /\ total = 0
    /\ cr = [t \in Readers |-> NoThread]
    /\ pair = NoPair

(***************************************************************************)
(* ReadPos.                                                                *)
(***************************************************************************)
\* ReadPos::new(file, length).
ReadPos_new(length) == [pos |-> 0, length |-> length]

\* Mutant: tell returns the length.
ReadPos_tell_len(r) == r.length

ReadPos_tell(r) == r.pos
ReadPos_len(r) == r.length
ReadPos_is_empty(r) == r.length = 0

\* Mutant: the read is done at the File's own cursor.
ReadPos_read_offset_cursor(r) == cursor

\* The offset ReadPos::read hands to pread: self.pos.
ReadPos_read_offset(r) == r.pos

\* Mutant: the request is clipped to the logical length, as ReadSlice clips
\* to end.
ReadPos_read_len_clipped(r, buflen) ==
    IF r.pos >= r.length THEN 0 ELSE Min(buflen, r.length - r.pos)

\* The length ReadPos::read asks of pread: the whole buffer.
ReadPos_read_len(r, buflen) == buflen

\* Mutant: the position advances by the length of the buffer, whatever the
\* capability returned.
ReadPos_read_advances_request(buflen) ==
    /\ which = "pos" /\ last = NoLast
    /\ \E out \in pread(ReadPos_read_offset(rp), ReadPos_read_len(rp, buflen)) :
          /\ rp' = [rp EXCEPT !.pos = @ + buflen]
          /\ cursor' = CursorAfter(ReadPos_read_offset(rp), out.n)
          /\ last' = LastRead(buflen, rp.pos, out.kind, out.n, TRUE,
                              ReadPos_read_offset(rp),
                              ReadPos_read_len(rp, buflen))
          /\ stage' = StageAfterRead(buflen, out.kind, out.n)
          /\ total' = TotalAfterRead(buflen, out.n)
    /\ UNCHANGED <<file, windows, which, rs, cr>>
    /\ UNCHANGED <<memVars, pair, gatherVars>>

\* Read for ReadPos: one pread at the reader's position, which then
\* advances by the bytes read; an error leaves the position.
ReadPos_read(buflen) ==
    /\ which = "pos" /\ last = NoLast
    /\ \E out \in pread(ReadPos_read_offset(rp), ReadPos_read_len(rp, buflen)) :
          /\ rp' = [rp EXCEPT !.pos = @ + out.n]
          /\ cursor' = CursorAfter(ReadPos_read_offset(rp), out.n)
          /\ last' = LastRead(buflen, rp.pos, out.kind, out.n, TRUE,
                              ReadPos_read_offset(rp),
                              ReadPos_read_len(rp, buflen))
          /\ stage' = StageAfterRead(buflen, out.kind, out.n)
          /\ total' = TotalAfterRead(buflen, out.n)
    /\ UNCHANGED <<file, windows, which, rs, cr>>
    /\ UNCHANGED <<memVars, pair, gatherVars>>

\* ReadPos::seek_from: the outcome [kind, val] and the new position.
ReadPos_seek_from(r, origin, offset, checks) ==
    LET c == seek_from_pos(origin, offset, checks)
    IN  IF c.kind = "some"
        THEN [kind |-> "ok", val |-> c.v, pos |-> c.v]
        ELSE [kind |-> c.kind, val |-> 0, pos |-> r.pos]

\* Mutant: a seek from End is taken from the current position.
ReadPos_seek_result_end_as_current(r, from, checks) ==
    CASE from.whence = "Start" ->
            [kind |-> "ok", val |-> from.off, pos |-> from.off]
      [] from.whence \in {"End", "Current"} ->
            ReadPos_seek_from(r, r.pos, from.off, checks)

\* Seek for ReadPos, as an outcome.
ReadPos_seek_result(r, from, checks) ==
    CASE from.whence = "Start" ->
            [kind |-> "ok", val |-> from.off, pos |-> from.off]
      [] from.whence = "End" ->
            ReadPos_seek_from(r, r.length, from.off, checks)
      [] from.whence = "Current" ->
            ReadPos_seek_from(r, r.pos, from.off, checks)

ReadPos_seek(from) ==
    /\ which = "pos" /\ last = NoLast
    /\ \E checks \in OverflowChecks :
          LET res == ReadPos_seek_result(rp, from, checks)
          IN  /\ rp' = [rp EXCEPT !.pos = res.pos]
              /\ last' = LastSeek(from, rp.pos, res.kind, res.val)
    /\ stage' = "other" /\ total' = 0
    /\ UNCHANGED <<file, cursor, windows, which, rs, cr>>
    /\ UNCHANGED <<memVars, pair, gatherVars>>

(***************************************************************************)
(* ReadSlice.                                                              *)
(***************************************************************************)
\* Mutant: the new slice is positioned at the start of the file.
ReadSlice_new_at_zero(start, end) == [start |-> start, pos |-> 0, end |-> end]

\* ReadSlice::new(file, start, end), which asserts start <= end.
ReadSlice_new(start, end) == [start |-> start, pos |-> start, end |-> end]

\* Mutant: len returns the end offset.
ReadSlice_len_to_end(r) == r.end

\* Mutant: tell returns the absolute position.
ReadSlice_tell_abs(r) == r.pos

ReadSlice_len(r) == r.end - r.start
ReadSlice_is_empty(r) == ReadSlice_len(r) = 0
ReadSlice_tell(r) == r.pos - r.start

\* Mutant: the buffer is not cut at end.
pread_abs_len_uncut(r, buflen, abspos) == buflen

\* pread_abs: the length asked of the capability for abspos < end.
pread_abs_len(r, buflen, abspos) ==
    IF buflen <= r.end - abspos THEN buflen ELSE r.end - abspos

\* pread_abs: whether the capability is called at all.
pread_abs_calls(r, abspos) == abspos < r.end

\* Read for ReadSlice: pread_abs at the position, which then advances.
ReadSlice_read(buflen) ==
    /\ which = "slice" /\ last = NoLast
    /\ IF pread_abs_calls(rs, rs.pos)
       THEN \E out \in pread(rs.pos, pread_abs_len(rs, buflen, rs.pos)) :
               /\ rs' = [rs EXCEPT !.pos = @ + out.n]
               /\ cursor' = CursorAfter(rs.pos, out.n)
               /\ last' = LastRead(buflen, rs.pos, out.kind, out.n, TRUE,
                                   rs.pos, pread_abs_len(rs, buflen, rs.pos))
               /\ stage' = StageAfterRead(buflen, out.kind, out.n)
               /\ total' = TotalAfterRead(buflen, out.n)
       ELSE /\ rs' = rs
            /\ cursor' = cursor
            /\ last' = LastRead(buflen, rs.pos, "ok", 0, FALSE, 0, 0)
            /\ stage' = StageAfterRead(buflen, "ok", 0)
            /\ total' = TotalAfterRead(buflen, 0)
    /\ UNCHANGED <<file, windows, which, rp, cr>>
    /\ UNCHANGED <<memVars, pair, gatherVars>>

\* Mutant: a seek to a position before start fails but moves the reader.
ReadSlice_seek_to_moved(r, abspos) ==
    IF abspos < r.start
    THEN [kind |-> "invalid", val |-> 0, pos |-> abspos]
    ELSE [kind |-> "ok", val |-> abspos - r.start, pos |-> abspos]

\* Mutant: seek_to accepts every position.
ReadSlice_seek_to_unchecked(r, abspos) ==
    [kind |-> "ok", val |-> abspos - r.start, pos |-> abspos]

\* ReadSlice::seek_to.
ReadSlice_seek_to(r, abspos) ==
    IF abspos < r.start
    THEN [kind |-> "invalid", val |-> 0, pos |-> r.pos]
    ELSE [kind |-> "ok", val |-> abspos - r.start, pos |-> abspos]

\* ReadSlice::seek_from.
ReadSlice_seek_from(r, origin, offset, checks) ==
    LET c == seek_from_pos(origin, offset, checks)
    IN  IF c.kind = "some" THEN ReadSlice_seek_to(r, c.v)
        ELSE [kind |-> c.kind, val |-> 0, pos |-> r.pos]

\* Seek for ReadSlice, as an outcome.
ReadSlice_seek_result(r, from, checks) ==
    CASE from.whence = "Start" ->
            LET c == checked_add(r.start, from.off)
            IN  IF c.some THEN ReadSlice_seek_to(r, c.v)
                ELSE [kind |-> "other", val |-> 0, pos |-> r.pos]
      [] from.whence = "End" ->
            ReadSlice_seek_from(r, r.end, from.off, checks)
      [] from.whence = "Current" ->
            ReadSlice_seek_from(r, r.pos, from.off, checks)

ReadSlice_seek(from) ==
    /\ which = "slice" /\ last = NoLast
    /\ \E checks \in OverflowChecks :
          LET res == ReadSlice_seek_result(rs, from, checks)
          IN  /\ rs' = [rs EXCEPT !.pos = res.pos]
              /\ last' = LastSeek(from, rs.pos, res.kind, res.val)
    /\ stage' = "other" /\ total' = 0
    /\ UNCHANGED <<file, cursor, windows, which, rp, cr>>
    /\ UNCHANGED <<memVars, pair, gatherVars>>

(***************************************************************************)
(* Spec: operations on the handles of one buffer, one at a time.           *)
(***************************************************************************)
Init == InitMem /\ NoReaders

Next ==
    \/ \E h, c \in Handles : AllIdle /\ MemHandle_clone(h, c, MaxHandles)
    \/ \E h \in Handles, a \in MemAdvice : AllIdle /\ MemHandle_advise(h, a)
    \/ \E h \in Handles : AllIdle /\ MemHandle_drop(h)
    \/ \E h \in Handles : adjust_cas_ok(h)
    \/ \E h \in Handles, ok \in BOOLEAN : platform_advise(h, ok)

Spec == Init /\ [][Next]_vars

(***************************************************************************)
(* SpecConc: each handle is used by its own thread; the threads' steps     *)
(* interleave.                                                             *)
(***************************************************************************)
NextConc ==
    \/ \E h, c \in Handles : MemHandle_clone(h, c, MaxConcHandles)
    \/ \E h \in Handles, a \in MemAdvice : MemHandle_advise(h, a)
    \/ \E h \in Handles : MemHandle_drop(h)
    \/ \E h \in Handles : adjust_cas_ok(h)
    \/ \E h \in Handles : adjust_cas_fail(h)
    \/ \E h \in Handles, ok \in BOOLEAN : platform_advise(h, ok)

SpecConc == Init /\ [][NextConc]_vars

(***************************************************************************)
(* SpecConcFair: SpecConc under fair scheduling.  A thread that is inside  *)
(* a call eventually takes its next step: its exchange, which succeeds if  *)
(* the counter holds the value it expects (compare_exchange_weak does not  *)
(* fail spuriously for ever) and otherwise fails and reloads, or its       *)
(* platform call, which returns.  Nothing is assumed about when threads    *)
(* begin calls.                                                            *)
(***************************************************************************)
ConcHandles == 1..MaxConcHandles

\* The next step of the thread that is inside a call on handle h.
Thread_step(h) ==
    \/ adjust_cas_ok(h)
    \/ adjust_cas_fail(h)
    \/ \E ok \in BOOLEAN : platform_advise(h, ok)

SpecConcFair ==
    /\ SpecConc
    /\ \A h \in ConcHandles : WF_vars(Thread_step(h))

(***************************************************************************)
(* SpecShared: one handle, handle 1, shared by threads (MemHandle is Sync  *)
(* and advise takes &self).  pc, prior, advice, adv and new_top are here   *)
(* indexed by the thread that is inside the call.  A thread begins a call  *)
(* only while both fields of the counter are below MaxCount.               *)
(***************************************************************************)
Threads == 1..MaxConcHandles

\* advise(a) by thread t on the shared handle: the atomic swap of the
\* handle's level (SeqCst), the early return, and otherwise the load that
\* begins adjust_advice.  A load made later than the swap finds a value
\* that the exchange then finds as well or fails on; a failed exchange
\* reloads.
Shared_advise(t, a) ==
    /\ UNCHANGED <<readVars, crowd, calc, gatherVars>>
    /\ hstate[1] = "live" /\ pc[t] = "idle"
    /\ BitAnd(advisors, Random) < MaxCount
    /\ Shr(BitAnd(advisors, Sequential), FieldBits) < MaxCount
    /\ hadvice' = [hadvice EXCEPT ![1] = a]
    /\ IF a = hadvice[1]
       THEN /\ ret' = OkRet(t, hadvice[1], a, hadvice[1])
            /\ UNCHANGED <<pc, prior, advice, adv>>
       ELSE /\ ret' = NoRet
            /\ pc' = [pc EXCEPT ![t] = "cas"]
            /\ prior' = [prior EXCEPT ![t] = hadvice[1]]
            /\ advice' = [advice EXCEPT ![t] = a]
            /\ adv' = [adv EXCEPT ![t] = advisors]
    /\ UNCHANGED <<hstate, advisors, os, new_top, retried>>

NextShared ==
    \/ \E t \in Threads, a \in MemAdvice : Shared_advise(t, a)
    \/ \E t \in Threads : adjust_cas_ok(t)
    \/ \E t \in Threads : adjust_cas_fail(t)
    \/ \E t \in Threads, ok \in BOOLEAN : platform_advise(t, ok)

SpecShared == Init /\ [][NextShared]_vars

(***************************************************************************)
(* SpecConcOk: SpecConc where every platform advisory call succeeds.       *)
(***************************************************************************)
NextConcOk ==
    \/ \E h, c \in Handles : MemHandle_clone(h, c, MaxConcHandles)
    \/ \E h \in Handles, a \in MemAdvice : MemHandle_advise(h, a)
    \/ \E h \in Handles : MemHandle_drop(h)
    \/ \E h \in Handles : adjust_cas_ok(h)
    \/ \E h \in Handles : adjust_cas_fail(h)
    \/ \E h \in Handles : platform_advise(h, TRUE)

SpecConcOk == Init /\ [][NextConcOk]_vars

(***************************************************************************)
(* SpecRead: one reader, a ReadPos or a ReadSlice, over a file that was    *)
(* just written (its cursor at the end); reads and seeks in any order, in  *)
(* a build with or without overflow checks.  The readers never read the    *)
(* File's cursor: the run is on cfg(unix).                                 *)
(***************************************************************************)
InitRead ==
    /\ InitMem
    /\ gr = NoGather
    /\ file \in Files /\ cursor = Len(file) /\ windows = FALSE
    /\ \/ /\ which = "pos"
          /\ \E length \in U64 : rp = ReadPos_new(length)
          /\ rs = NoReadSlice
       \/ /\ which = "slice"
          /\ \E start, end \in U64 :
                start <= end /\ rs = ReadSlice_new(start, end)
          /\ rp = NoReadPos
    /\ last = NoLast /\ stage = "reading" /\ total = 0
    /\ pair = NoPair
    /\ cr = [t \in Readers |-> NoThread]

\* The caller takes the result of the read or seek that has returned;
\* the next operation starts after that.
Reader_return ==
    /\ last # NoLast
    /\ last' = NoLast
    /\ UNCHANGED <<file, cursor, windows, which, rp, rs, stage, total, cr>>
    /\ UNCHANGED <<memVars, pair, gatherVars>>

\* tell() on the reader: it takes &self.
Reader_tell ==
    /\ which \in {"pos", "slice"} /\ last = NoLast
    /\ last' = IF which = "pos" THEN LastTell(rp.pos, ReadPos_tell(rp))
               ELSE LastTell(rs.pos, ReadSlice_tell(rs))
    /\ UNCHANGED <<file, cursor, windows, which, rp, rs, stage, total, cr>>
    /\ UNCHANGED <<memVars, pair, gatherVars>>

NextRead ==
    \/ \E n \in 0..MaxBuf : ReadPos_read(n)
    \/ \E from \in SeekFroms : ReadPos_seek(from)
    \/ \E n \in 0..MaxBuf : ReadSlice_read(n)
    \/ \E from \in SeekFroms : ReadSlice_seek(from)
    \/ Reader_tell
    \/ Reader_return

SpecRead == InitRead /\ [][NextRead]_vars

(***************************************************************************)
(* SpecPread: one ReadSlice, used as a PosRead as well: reads, seeks and   *)
(* pread(buf, offset) in any order.  pair.args holds the offset of the     *)
(* pread that has just returned.                                           *)
(***************************************************************************)
InitPread == InitRead /\ which = "slice"

\* u64::saturating_add and, for comparison, u64::wrapping_add.
wrapping_add(a, b) == (a + b) % (2 ^ WordBits)

saturating_add(a, b) == IF a + b > U64Max THEN U64Max ELSE a + b

\* PosRead for ReadSlice, pread(buf, offset): whether the capability is
\* called, and with which offset and length.
ReadSlice_pread(r, buflen, offset) ==
    LET pos == saturating_add(r.start, offset)
    IN  IF pos < r.end /\ pread_abs_calls(r, pos)
        THEN [called |-> TRUE, reqOff |-> pos,
              reqLen |-> pread_abs_len(r, buflen, pos)]
        ELSE [called |-> FALSE, reqOff |-> 0, reqLen |-> 0]

\* rs.pread(buf, offset), which takes &self.
Slice_pread(buflen, offset) ==
    /\ which = "slice" /\ last = NoLast
    /\ LET q == ReadSlice_pread(rs, buflen, offset)
       IN  IF q.called
           THEN \E out \in pread(q.reqOff, q.reqLen) :
                   /\ cursor' = CursorAfter(q.reqOff, out.n)
                   /\ last' = [LastRead(buflen, rs.pos, out.kind, out.n, TRUE,
                                        q.reqOff, q.reqLen)
                                  EXCEPT !.op = "pread"]
           ELSE /\ cursor' = cursor
                /\ last' = [LastRead(buflen, rs.pos, "ok", 0, FALSE, 0, 0)
                               EXCEPT !.op = "pread"]
    /\ pair' = [NoPair EXCEPT !.args = <<offset>>]
    /\ UNCHANGED <<file, windows, which, rp, rs, stage, total, cr>>
    /\ UNCHANGED <<memVars, gatherVars>>

\* The caller takes the result of the pread.
Pread_return ==
    /\ last.op = "pread"
    /\ last' = NoLast
    /\ pair' = NoPair
    /\ UNCHANGED <<file, cursor, windows, which, rp, rs, stage, total, cr>>
    /\ UNCHANGED <<memVars, gatherVars>>

NextPread ==
    \/ \E n \in 0..MaxBuf : ReadSlice_read(n)
    \/ \E from \in SeekFroms : ReadSlice_seek(from)
    \/ \E n \in 0..MaxBuf, offset \in U64 : Slice_pread(n, offset)
    \/ last.op # "pread" /\ Reader_return
    \/ Pread_return

SpecPread == InitPread /\ [][NextPread]_vars

(***************************************************************************)
(* SpecConcRead: test_concurrent_seek_read.  Each thread owns a ReadPos    *)
(* over the shared File, seeks to its offset p and reads                   *)
(* min(SliceLen, len - p) bytes with read_exact.                           *)
(***************************************************************************)
ThreadReader(t) == [pos |-> cr[t].pos, length |-> Len(file)]
ThreadLen(t) == Min(SliceLen, Len(file) - cr[t].p)

\* rpc.seek(SeekFrom::Start(p)).expect("seek")
Thread_seek(t) ==
    /\ cr[t].pc = "seek"
    /\ LET res == ReadPos_seek_result(ThreadReader(t),
                                      [whence |-> "Start", off |-> cr[t].p],
                                      FALSE)
       IN  cr' = [cr EXCEPT ![t].pos = res.pos, ![t].pc = "read"]
    /\ UNCHANGED <<file, cursor, windows, which, rp, rs, last,
                   stage, total>>
    /\ UNCHANGED <<memVars, pair, gatherVars>>

\* One turn of read_exact's loop: a read into the rest of the buffer.  Ok(0)
\* (UnexpectedEof, pc "eof") and an error (pc "failed") end the thread at
\* its expect; an interrupted read is repeated and changes nothing.
Thread_read(t) ==
    /\ cr[t].pc = "read"
    /\ LET r == ThreadReader(t)
           off == ReadPos_read_offset(r)
           want == ThreadLen(t) - Len(cr[t].buf)
       IN  \E out \in pread(off, ReadPos_read_len(r, want)) :
              /\ cursor' = CursorAfter(off, out.n)
              /\ IF out.kind = "ok" /\ out.n > 0
                 THEN cr' = [cr EXCEPT
                        ![t].pos = @ + out.n,
                        ![t].buf = @ \o Data(off, out.n),
                        ![t].pc = IF out.n = want THEN "done" ELSE "read"]
                 ELSE cr' = [cr EXCEPT
                        ![t].pc = IF out.kind = "ok" THEN "eof"
                                  ELSE "failed"]
    /\ UNCHANGED <<file, windows, which, rp, rs, last, stage,
                   total>>
    /\ UNCHANGED <<memVars, pair, gatherVars>>

InitConcRead ==
    /\ InitMem
    /\ gr = NoGather
    /\ file \in Files /\ Len(file) > 0
    /\ cursor = Len(file) /\ windows \in BOOLEAN
    /\ which = "none" /\ rp = NoReadPos /\ rs = NoReadSlice
    /\ last = NoLast /\ stage = "other" /\ total = 0
    /\ pair = NoPair
    /\ cr \in [Readers ->
                {[pc |-> "seek", p |-> p, pos |-> 0, buf |-> <<>>] :
                    p \in 0..(Len(file) - 1)}]

NextConcRead ==
    \/ \E t \in Readers : Thread_seek(t)
    \/ \E t \in Readers : Thread_read(t)

SpecConcRead == InitConcRead /\ [][NextConcRead]_vars

(***************************************************************************)
(* Construction of a ReadSlice, subslice and Clone, as their callers see   *)
(* them: a reader, or a panic.                                             *)
(***************************************************************************)
\* ReadSlice::new: assert!(start <= end).
ReadSlice_new_asserts(start, end) == start <= end

\* Mutant: subslice only checks that the range is ordered.
subslice_asserts_ordered_only(r, abs_start, abs_end) == abs_start <= abs_end

\* ReadSlice::subslice: its three assertions.
subslice_asserts(r, abs_start, abs_end) ==
    /\ abs_start <= abs_end
    /\ r.start <= abs_start
    /\ r.end >= abs_end

Panicked == [kind |-> "panic", r |-> NoReadSlice]

\* Mutant: the range of the subslice is not shifted by the parent's start.
ReadSlice_subslice_unshifted(r, start, end) ==
    IF r.start + start > U64Max \/ r.start + end > U64Max
       \/ ~subslice_asserts(r, r.start + start, r.start + end)
    THEN Panicked
    ELSE [kind |-> "ok", r |-> ReadSlice_new(start, end)]

\* Mutant: the range of the subslice is taken from the parent's position.
ReadSlice_subslice_from_pos(r, start, end) ==
    IF r.pos + start > U64Max \/ r.pos + end > U64Max
       \/ ~subslice_asserts(r, r.pos + start, r.pos + end)
    THEN Panicked
    ELSE [kind |-> "ok", r |-> ReadSlice_new(r.pos + start, r.pos + end)]

\* ReadSlice::subslice(start, end) on the slice r: the expect of the two
\* checked additions, the assertions, then ReadSlice::new and its own.
ReadSlice_subslice(r, start, end) ==
    LET abs_start == checked_add(r.start, start)
        abs_end == checked_add(r.start, end)
    IN  IF ~abs_start.some \/ ~abs_end.some THEN Panicked
        ELSE IF ~subslice_asserts(r, abs_start.v, abs_end.v) THEN Panicked
        ELSE IF ~ReadSlice_new_asserts(abs_start.v, abs_end.v) THEN Panicked
        ELSE [kind |-> "ok", r |-> ReadSlice_new(abs_start.v, abs_end.v)]

\* Mutant: the end of the range is checked against the ReadPos's length.
ReadPos_subslice_within(r, start, end) ==
    IF ~ReadSlice_new_asserts(start, end) \/ end > r.length THEN Panicked
    ELSE [kind |-> "ok", r |-> ReadSlice_new(start, end)]

\* ReadSubSlice for ReadPos: subslice(start, end) is
\* ReadSlice::new(self.file.clone(), start, end), with its assertion.
ReadPos_subslice(r, start, end) ==
    IF ~ReadSlice_new_asserts(start, end) THEN Panicked
    ELSE [kind |-> "ok", r |-> ReadSlice_new(start, end)]

\* Mutant: the clone keeps the position of the original.
ReadPos_clone_at_pos(r) == r

\* Clone for ReadPos: position 0, same length.
ReadPos_clone(r) == [pos |-> 0, length |-> r.length]

\* Clone for ReadSlice: positioned at start, same start and end.
ReadSlice_clone(r) == [start |-> r.start, pos |-> r.start, end |-> r.end]

\* What a caller observes of one read with a buffer of buflen bytes, and
\* the reader's position after it: for each possible outcome of the
\* capability.
ReadPos_read_results(r, buflen) ==
    {[kind |-> out.kind, n |-> out.n,
      data |-> Data(ReadPos_read_offset(r), out.n), pos |-> r.pos + out.n] :
        out \in pread(ReadPos_read_offset(r), ReadPos_read_len(r, buflen))}

ReadSlice_read_results(r, buflen) ==
    IF pread_abs_calls(r, r.pos)
    THEN {[kind |-> out.kind, n |-> out.n, data |-> Data(r.pos, out.n),
           pos |-> r.pos + out.n] :
             out \in pread(r.pos, pread_abs_len(r, buflen, r.pos))}
    ELSE {[kind |-> "ok", n |-> 0, data |-> <<>>, pos |-> r.pos]}

\* The result of a read without the reader's own position.
Observed(x) == [kind |-> x.kind, n |-> x.n, data |-> x.data]

\* The start offsets of the slices built first in SpecSub and SpecClone.
ParentStarts == {0, 1}

(***************************************************************************)
(* SpecSub: ReadSlice::new(start, end), then subslice(a, b) of it, with    *)
(* any arguments; when both succeed, the subslice (pair.a) and a ReadSlice *)
(* built by ReadSlice::new over the absolute range (pair.b) are given the  *)
(* same reads and seeks, over the same file.  pair.same tells whether all  *)
(* their results were the same so far.  Or ReadPos::new(length), seeks on  *)
(* it, then subslice(a, b) of it.  pair.args are the arguments of the last *)
(* constructor or subslice call.                                           *)
(***************************************************************************)
InitSub ==
    /\ InitMem
    /\ gr = NoGather
    /\ file = FileOf(MaxFileLen) /\ cursor = Len(file) /\ windows = FALSE
    /\ which = "none" /\ rp = NoReadPos /\ rs = NoReadSlice
    /\ last = NoLast /\ stage = "other" /\ total = 0
    /\ cr = [t \in Readers |-> NoThread]
    /\ pair = NoPair

PairFrame ==
    /\ UNCHANGED <<file, cursor, windows, which, rp, rs, last, stage,
                   total, cr>>
    /\ UNCHANGED <<memVars, gatherVars>>

\* ReadSlice::new(file, start, end).
Slice_new(start, end) ==
    /\ pair.stage = "none"
    /\ pair' = IF ReadSlice_new_asserts(start, end)
               THEN [NoPair EXCEPT !.stage = "parent",
                                   !.a = ReadSlice_new(start, end),
                                   !.args = <<start, end>>]
               ELSE [NoPair EXCEPT !.stage = "panicked", !.who = "new",
                                   !.args = <<start, end>>]
    /\ PairFrame

\* parent.subslice(start, end), and the independent
\* ReadSlice::new(file, parent.start + start, parent.start + end).
\* Subslices are taken of the parents that start in ParentStarts.
Slice_subslice(start, end) ==
    /\ pair.stage = "parent"
    /\ pair.a.start \in ParentStarts
    /\ LET res == ReadSlice_subslice(pair.a, start, end)
           args == <<pair.a.start, pair.a.end, start, end>>
       IN  pair' = IF res.kind = "ok"
                   THEN [NoPair EXCEPT
                           !.stage = "sub", !.a = res.r,
                           !.b = ReadSlice_new(pair.a.start + start,
                                               pair.a.start + end),
                           !.args = args]
                   ELSE [NoPair EXCEPT !.stage = "panicked",
                                       !.who = "subslice", !.args = args]
    /\ PairFrame

\* The same read on both readers; the capability acts on both alike
\* whenever it can.
Both_read(buflen) ==
    /\ pair.stage = "sub"
    /\ \E ra \in ReadSlice_read_results(pair.a, buflen),
          rb \in ReadSlice_read_results(pair.b, buflen) :
          /\ (\E x \in ReadSlice_read_results(pair.b, buflen) :
                 Observed(x) = Observed(ra)) => Observed(rb) = Observed(ra)
          /\ pair' = [pair EXCEPT
                        !.a.pos = ra.pos, !.b.pos = rb.pos, !.who = "read",
                        !.same = @ /\ Observed(ra) = Observed(rb)]
    /\ PairFrame

\* The same seek on both readers, in the same build.
Both_seek(from) ==
    /\ pair.stage = "sub"
    /\ \E checks \in OverflowChecks :
          LET ra == ReadSlice_seek_result(pair.a, from, checks)
              rb == ReadSlice_seek_result(pair.b, from, checks)
          IN  pair' = [pair EXCEPT
                         !.a.pos = ra.pos, !.b.pos = rb.pos, !.who = "seek",
                         !.same = @ /\ ra.kind = rb.kind /\ ra.val = rb.val]
    /\ PairFrame

\* Both readers are replaced by their clones.
Both_clone ==
    /\ pair.stage = "sub"
    /\ pair' = [pair EXCEPT !.a = ReadSlice_clone(pair.a),
                            !.b = ReadSlice_clone(pair.b),
                            !.who = "clone"]
    /\ PairFrame

\* ReadPos::new(file, length); pair.a is the ReadPos.
Pos_new(length) ==
    /\ pair.stage = "none"
    /\ pair' = [NoPair EXCEPT !.stage = "pos", !.a = ReadPos_new(length),
                              !.args = <<length>>]
    /\ PairFrame

\* A seek on the ReadPos.
Pos_seek(from) ==
    /\ pair.stage = "pos"
    /\ \E checks \in OverflowChecks :
          pair' = [pair EXCEPT
                     !.a.pos = ReadPos_seek_result(pair.a, from, checks).pos,
                     !.who = "seek"]
    /\ PairFrame

\* rp.subslice(start, end) on the ReadPos; pair.b is the ReadSlice
\* returned.
Pos_subslice(start, end) ==
    /\ pair.stage = "pos"
    /\ LET res == ReadPos_subslice(pair.a, start, end)
       IN  pair' = IF res.kind = "ok"
                   THEN [pair EXCEPT !.stage = "possub", !.b = res.r,
                                     !.who = "subslice",
                                     !.args = <<start, end>>]
                   ELSE [pair EXCEPT !.stage = "pospanicked",
                                     !.who = "subslice",
                                     !.args = <<start, end>>]
    /\ PairFrame

NextSub ==
    \/ \E start, end \in U64 : Slice_new(start, end)
    \/ \E start, end \in U64 : Slice_subslice(start, end)
    \/ \E n \in 0..MaxBuf : Both_read(n)
    \/ \E from \in SeekFroms : Both_seek(from)
    \/ Both_clone
    \/ \E length \in U64 : Pos_new(length)
    \/ \E from \in SeekFroms : Pos_seek(from)
    \/ \E start, end \in U64 : Pos_subslice(start, end)

SpecSub == InitSub /\ [][NextSub]_vars

(***************************************************************************)
(* SpecChain: ReadSlice::new(start, end), then subslice of it, subslice of *)
(* that, and so on, with any arguments, and seeks on the subslices in      *)
(* between.  pair.a is the innermost slice, pair.b the first one, and      *)
(* pair.args = <<a, b>> are the offsets of the innermost slice's range     *)
(* within the first; pair.same tells whether the slice of which the        *)
(* innermost was taken was at its start then.  After a panic pair.args =   *)
(* <<a, b, c, d>> with the arguments c, d of the call.  Subslices are      *)
(* taken of the first slices that start in ParentStarts.                   *)
(***************************************************************************)
ChainRoot == IF pair.stage = "parent" THEN pair.a ELSE pair.b

ChainBounds ==
    IF pair.stage = "parent" THEN <<0, ReadSlice_len(pair.a)>>
    ELSE <<pair.args[1], pair.args[2]>>

\* inner.subslice(start, end) on the innermost slice.
Chain_subslice(start, end) ==
    /\ pair.stage \in {"parent", "chain"}
    /\ ChainRoot.start \in ParentStarts
    /\ LET res == ReadSlice_subslice(pair.a, start, end)
           a == ChainBounds[1]
           b == ChainBounds[2]
       IN  pair' = IF res.kind = "ok"
                   THEN [pair EXCEPT !.stage = "chain", !.a = res.r,
                                     !.b = ChainRoot, !.who = "subslice",
                                     !.same = (pair.a.pos = pair.a.start),
                                     !.args = <<a + start, a + end>>]
                   ELSE [NoPair EXCEPT !.stage = "chainpanicked",
                                       !.who = "subslice",
                                       !.args = <<a, b, start, end>>]
    /\ PairFrame

\* A seek on the innermost slice, a subslice.
Chain_seek(from) ==
    /\ pair.stage = "chain"
    /\ \E checks \in OverflowChecks :
          pair' = [pair EXCEPT
                     !.a.pos = ReadSlice_seek_result(pair.a, from, checks).pos,
                     !.who = "seek"]
    /\ PairFrame

NextChain ==
    \/ \E start, end \in U64 : Slice_new(start, end)
    \/ \E start, end \in U64 : Chain_subslice(start, end)
    \/ \E from \in SeekFroms : Chain_seek(from)

SpecChain == InitSub /\ [][NextChain]_vars

(***************************************************************************)
(* SpecDuo: test_seek and test_slice_seek side by side.  Over a file of    *)
(* exactly L bytes, ReadPos::new(file, L) (pair.a) and ReadSlice::new(     *)
(* file, 0, L) (pair.b) are given the same reads, seeks and tells.         *)
(* pair.args = <<ra, rb>> is what the last operation returned on each of   *)
(* the two.                                                                *)
(***************************************************************************)
InitDuo ==
    /\ InitMem
    /\ gr = NoGather
    /\ file \in Files /\ cursor = Len(file) /\ windows = FALSE
    /\ which = "none" /\ rp = NoReadPos /\ rs = NoReadSlice
    /\ last = NoLast /\ stage = "other" /\ total = 0
    /\ cr = [t \in Readers |-> NoThread]
    /\ pair = [NoPair EXCEPT !.stage = "duo",
                             !.a = ReadPos_new(Len(file)),
                             !.b = ReadSlice_new(0, Len(file))]

\* The same read on both readers; the capability acts on both alike
\* whenever it can.
Duo_read(buflen) ==
    /\ pair.stage = "duo"
    /\ \E ra \in ReadPos_read_results(pair.a, buflen),
          rb \in ReadSlice_read_results(pair.b, buflen) :
          /\ (\E x \in ReadSlice_read_results(pair.b, buflen) :
                 Observed(x) = Observed(ra)) => Observed(rb) = Observed(ra)
          /\ pair' = [pair EXCEPT
                        !.a.pos = ra.pos, !.b.pos = rb.pos, !.who = "read",
                        !.args = <<Observed(ra), Observed(rb)>>]
    /\ PairFrame

\* The same seek on both readers, in the same build.
Duo_seek(from) ==
    /\ pair.stage = "duo"
    /\ \E checks \in OverflowChecks :
          LET ra == ReadPos_seek_result(pair.a, from, checks)
              rb == ReadSlice_seek_result(pair.b, from, checks)
          IN  pair' = [pair EXCEPT
                         !.a.pos = ra.pos, !.b.pos = rb.pos, !.who = "seek",
                         !.args = <<[kind |-> ra.kind, val |-> ra.val],
                                    [kind |-> rb.kind, val |-> rb.val]>>]
    /\ PairFrame

\* tell() on both readers.
Duo_tell ==
    /\ pair.stage = "duo"
    /\ pair' = [pair EXCEPT
                  !.who = "tell",
                  !.args = <<[kind |-> "ok", val |-> ReadPos_tell(pair.a)],
                             [kind |-> "ok", val |-> ReadSlice_tell(pair.b)]>>]
    /\ PairFrame

NextDuo ==
    \/ \E n \in 0..MaxBuf : Duo_read(n)
    \/ \E from \in SeekFroms : Duo_seek(from)
    \/ Duo_tell

SpecDuo == InitDuo /\ [][NextDuo]_vars

(***************************************************************************)
(* SpecClone: a ReadPos or a ReadSlice (pair.a) is read and sought, then   *)
(* cloned (pair.b), and both readers are read and sought in any order.     *)
(* pair.who is the reader the last step acted on; pair.same tells whether  *)
(* every read so far stored the file's bytes at the reader's own position. *)
(***************************************************************************)
InitClone ==
    /\ InitMem
    /\ gr = NoGather
    /\ file = FileOf(MaxFileLen) /\ cursor = Len(file) /\ windows = FALSE
    /\ rp = NoReadPos /\ rs = NoReadSlice
    /\ last = NoLast /\ stage = "other" /\ total = 0
    /\ cr = [t \in Readers |-> NoThread]
    /\ \/ /\ which = "pos"
          /\ \E length \in U64 :
                pair = [NoPair EXCEPT !.stage = "one",
                                      !.a = ReadPos_new(length)]
       \/ /\ which = "slice"
          /\ \E start \in ParentStarts, end \in U64 :
                /\ ReadSlice_new_asserts(start, end)
                /\ pair = [NoPair EXCEPT !.stage = "one",
                                         !.a = ReadSlice_new(start, end)]

PairReader(x) == IF x = "a" THEN pair.a ELSE pair.b

\* The pair after reader x has moved to pos.
PairMoved(x, pos, ok) ==
    IF x = "a"
    THEN [pair EXCEPT !.a.pos = pos, !.who = x, !.same = @ /\ ok]
    ELSE [pair EXCEPT !.b.pos = pos, !.who = x, !.same = @ /\ ok]

\* let r2 = r1.clone()
Pair_clone ==
    /\ pair.stage = "one"
    /\ pair' = [pair EXCEPT
                  !.stage = "two", !.who = "clone",
                  !.b = IF which = "pos" THEN ReadPos_clone(pair.a)
                        ELSE ReadSlice_clone(pair.a)]
    /\ PairFrame

\* A read on the original ("a") or on the clone ("b").
Pair_read(x, buflen) ==
    /\ pair.stage \in {"one", "two"}
    /\ x = "b" => pair.stage = "two"
    /\ LET r == PairReader(x)
       IN  \E res \in IF which = "pos" THEN ReadPos_read_results(r, buflen)
                      ELSE ReadSlice_read_results(r, buflen) :
              pair' = PairMoved(x, res.pos,
                                res.data = SubSeq(file, r.pos + 1,
                                                  r.pos + res.n))
    /\ PairFrame

\* A seek on the original or on the clone.
Pair_seek(x, from) ==
    /\ pair.stage \in {"one", "two"}
    /\ x = "b" => pair.stage = "two"
    /\ \E checks \in OverflowChecks :
          LET r == PairReader(x)
              res == IF which = "pos" THEN ReadPos_seek_result(r, from, checks)
                     ELSE ReadSlice_seek_result(r, from, checks)
          IN  pair' = PairMoved(x, res.pos, TRUE)
    /\ PairFrame

NextClone ==
    \/ Pair_clone
    \/ \E x \in {"a", "b"}, n \in 0..MaxBuf : Pair_read(x, n)
    \/ \E x \in {"a", "b"}, from \in SeekFroms : Pair_seek(x, from)

SpecClone == InitClone /\ [][NextClone]_vars

(***************************************************************************)
(* SpecTrip: a ReadPos or a ReadSlice (pair.a) is read and sought; then    *)
(* tell() is called and the reader as it is then is kept (pair.b, with the *)
(* value returned in pair.args); the reader is read and sought further,    *)
(* and at some point given seek(SeekFrom::Start(t)) with the value t that  *)
(* tell returned.  pair.same tells whether the reader has stayed at the    *)
(* position it had when tell was called.                                   *)
(***************************************************************************)
PairTell(r) == IF which = "pos" THEN ReadPos_tell(r) ELSE ReadSlice_tell(r)

PairReadResults(r, buflen) ==
    IF which = "pos" THEN ReadPos_read_results(r, buflen)
    ELSE ReadSlice_read_results(r, buflen)

PairSeekResult(r, from, checks) ==
    IF which = "pos" THEN ReadPos_seek_result(r, from, checks)
    ELSE ReadSlice_seek_result(r, from, checks)

\* let t = r.tell()
Trip_tell ==
    /\ pair.stage = "one"
    /\ pair' = [pair EXCEPT !.stage = "marked", !.b = pair.a,
                            !.who = "tell", !.same = TRUE,
                            !.args = <<PairTell(pair.a)>>]
    /\ PairFrame

\* A further read.
Trip_read(buflen) ==
    /\ pair.stage = "marked"
    /\ \E res \in PairReadResults(pair.a, buflen) :
          pair' = [pair EXCEPT !.a.pos = res.pos, !.who = "read",
                               !.same = @ /\ res.pos = pair.b.pos]
    /\ PairFrame

\* A further seek.
Trip_seek(from) ==
    /\ pair.stage = "marked"
    /\ \E checks \in OverflowChecks :
          LET res == PairSeekResult(pair.a, from, checks)
          IN  pair' = [pair EXCEPT !.a.pos = res.pos, !.who = "seek",
                                   !.same = @ /\ res.pos = pair.b.pos]
    /\ PairFrame

\* r.seek(SeekFrom::Start(t)): stage "back" when it returns Ok(t).
Trip_back ==
    /\ pair.stage = "marked"
    /\ \E checks \in OverflowChecks :
          LET res == PairSeekResult(pair.a,
                                    [whence |-> "Start", off |-> pair.args[1]],
                                    checks)
          IN  pair' = [pair EXCEPT
                         !.a.pos = res.pos, !.who = "back",
                         !.stage = IF res.kind = "ok" /\ res.val = pair.args[1]
                                   THEN "back" ELSE "lost"]
    /\ PairFrame

NextTrip ==
    \/ \E n \in 0..MaxBuf : Pair_read("a", n)
    \/ \E from \in SeekFroms : Pair_seek("a", from)
    \/ Trip_tell
    \/ \E n \in 0..MaxBuf : Trip_read(n)
    \/ \E from \in SeekFroms : Trip_seek(from)
    \/ Trip_back

SpecTrip == InitClone /\ [][NextTrip]_vars

(***************************************************************************)
(* SpecCalc: decr_advisors and incr_advisors as functions.  The packed     *)
(* counter values have each field within MaxCount of either end of its     *)
(* range; the level is any of the three.                                   *)
(***************************************************************************)
FieldValues == (0..MaxCount) \cup ((FieldMax - MaxCount)..FieldMax)

PackedValues ==
    {r + Shl(q, FieldBits) : r \in FieldValues, q \in FieldValues}

InitCalc ==
    /\ hstate = [h \in Handles |-> IF h = 1 THEN "live" ELSE "unborn"]
    /\ hadvice = [h \in Handles |-> Normal]
    /\ advisors = 0
    /\ os = Normal
    /\ pc = [h \in Handles |-> "idle"]
    /\ prior = [h \in Handles |-> Normal]
    /\ advice = [h \in Handles |-> Normal]
    /\ adv = [h \in Handles |-> 0]
    /\ new_top = [h \in Handles |-> Normal]
    /\ retried = FALSE
    /\ ret = NoRet
    /\ crowd = NoCrowd
    /\ \E a \in PackedValues, lv \in MemAdvice :
          calc = [stage |-> "in", f |-> "", a |-> a, lv |-> lv, out |-> 0]
    /\ NoReaders

CalcFrame ==
    UNCHANGED <<hstate, hadvice, advisors, os, pc, prior, advice, adv,
                new_top, retried, ret, crowd, readVars, gatherVars>>

Calc_decr ==
    /\ calc.stage = "in"
    /\ calc' = [calc EXCEPT !.stage = "out", !.f = "decr",
                            !.out = decr_advisors(calc.a, calc.lv)]
    /\ CalcFrame

Calc_incr ==
    /\ calc.stage = "in"
    /\ calc' = [calc EXCEPT !.stage = "out", !.f = "incr",
                            !.out = incr_advisors(calc.a, calc.lv)]
    /\ CalcFrame

\* top_most applied to the packed value.
Calc_top ==
    /\ calc.stage = "in"
    /\ calc' = [calc EXCEPT !.stage = "top", !.f = "top",
                            !.out = top_most(calc.a)]
    /\ CalcFrame

NextCalc == Calc_decr \/ Calc_incr \/ Calc_top

SpecCalc == InitCalc /\ [][NextCalc]_vars

(***************************************************************************)
(* SpecSat: Spec with a crowd.  Besides the handles of Handles there are   *)
(* CrowdSize more live handles, all of which advised the same level, which *)
(* leaves that level's field one short of its capacity.  The handles of    *)
(* Handles act one at a time as in Spec; the crowd's handles can only be   *)
(* dropped.                                                                *)
(***************************************************************************)
CrowdSize == FieldMax - 1

InitSat ==
    /\ hstate = [h \in Handles |-> IF h = 1 THEN "live" ELSE "unborn"]
    /\ hadvice = [h \in Handles |-> Normal]
    /\ \E lv \in {Random, Sequential} :
          /\ crowd = [NoCrowd EXCEPT ![lv] = CrowdSize]
          /\ advisors = IF lv = Random THEN CrowdSize
                        ELSE Shl(CrowdSize, FieldBits)
          /\ os = lv
    /\ pc = [h \in Handles |-> "idle"]
    /\ prior = [h \in Handles |-> Normal]
    /\ advice = [h \in Handles |-> Normal]
    /\ adv = [h \in Handles |-> 0]
    /\ new_top = [h \in Handles |-> Normal]
    /\ retried = FALSE
    /\ ret = NoRet
    /\ calc = NoCalc
    /\ NoReaders

\* The counter after k handles at level lv were dropped one after another:
\* each drop is adjust_advice(lv, Normal), whose exchange succeeds at once
\* when no other call is in progress.  (The k drops are composed as two
\* halves, the first evaluated before the second is begun, to keep the
\* evaluation shallow; a counter value is never negative.)
RECURSIVE drops(_, _, _)
drops(a, lv, k) ==
    IF k = 0 THEN a
    ELSE IF k = 1 THEN incr_advisors(decr_advisors(a, lv), Normal)
    ELSE LET half == drops(a, lv, k \div 2)
         IN  IF half >= 0 THEN drops(half, lv, k - k \div 2) ELSE half

\* drops for the whole crowd, worked out once for the counter values that
\* a crowd and the handles of Handles can produce.
CrowdValues ==
    {r + Shl(q, FieldBits) :
        r, q \in (0..MaxHandles) \cup ((CrowdSize - MaxHandles)..FieldMax)}

DropsOfCrowd ==
    [lv \in {Random, Sequential} |->
        [a \in CrowdValues |-> drops(a, lv, CrowdSize)]]

crowd_dropped(a, lv, k) ==
    IF k = CrowdSize /\ a \in CrowdValues THEN DropsOfCrowd[lv][a]
    ELSE drops(a, lv, k)

\* Every handle of the crowd at level lv is dropped, one after another.
\* At most one of the drops changes the top-most level (levels only leave),
\* and that one makes the platform call, which succeeds (ok) or fails.
Crowd_drop(lv, ok) ==
    /\ AllIdle
    /\ crowd[lv] > 0
    /\ crowd' = [crowd EXCEPT ![lv] = 0]
    /\ advisors' = crowd_dropped(advisors, lv, crowd[lv])
    /\ os' = IF top_most(advisors') # top_most(advisors) /\ ok
             THEN top_most(advisors')
             ELSE os
    /\ ret' = NoRet
    /\ UNCHANGED <<hstate, hadvice, pc, prior, advice, adv, new_top,
                   retried, calc, readVars, gatherVars>>

NextSat ==
    \/ \E h, c \in Handles : AllIdle /\ MemHandle_clone(h, c, MaxHandles)
    \/ \E h \in Handles, a \in MemAdvice : AllIdle /\ MemHandle_advise(h, a)
    \/ \E h \in Handles : AllIdle /\ MemHandle_drop(h)
    \/ \E h \in Handles : adjust_cas_ok(h)
    \/ \E h \in Handles, ok \in BOOLEAN : platform_advise(h, ok)
    \/ \E lv \in {Random, Sequential}, ok \in BOOLEAN : Crowd_drop(lv, ok)

SpecSat == InitSat /\ [][NextSat]_vars

(***************************************************************************)
(* GatheringReader, src/io/gather.rs (and its copy over Bytes in           *)
(* src/lib.rs).  The i-th buffer holds the bytes 10 i + 1, 10 i + 2, ...,  *)
(* so that every byte tells where it came from.                            *)
(***************************************************************************)
GatherBuf(i, len) == [j \in 1..len |-> 10 * i + j]

\* The slices of buffers a GatheringReader is made over: 0..MaxGather
\* buffers of 0..MaxChunk bytes each.
BufferLists ==
    UNION {{[i \in 1..k |-> GatherBuf(i, lens[i])] :
               lens \in [1..k -> 0..MaxChunk]} : k \in 0..MaxGather}

\* All the buffers' bytes in order.
RECURSIVE Concat(_)
Concat(bufs) ==
    IF bufs = <<>> THEN <<>> ELSE Head(bufs) \o Concat(Tail(bufs))

\* GatheringReader::new(buffers): split_first, or an empty Cursor over no
\* remainder.
GatheringReader_new(buffers) ==
    IF buffers # <<>>
    THEN [current |-> Head(buffers), pos |-> 0, remainder |-> Tail(buffers)]
    ELSE [current |-> <<>>, pos |-> 0, remainder |-> <<>>]

\* Read for Cursor<&[u8]>: the number of bytes copied into a buffer of
\* buflen bytes; it never fails.
Cursor_read(g, buflen) == Min(buflen, Len(g.current) - g.pos)

\* Mutant: read returns what the current Cursor returned, and never goes
\* on to the next buffer within a call.
read_recurses_never(g, n, buflen) == FALSE

\* The test of GatheringReader::read before "self.read(buf)": n == 0,
\* !buf.is_empty(), and self.pop(), which is true when a buffer remains.
read_recurses(g, n, buflen) ==
    n = 0 /\ buflen # 0 /\ g.remainder # <<>>

\* rdr.read(buf) is called with a buffer of buflen bytes.
Gather_read(buflen) ==
    /\ gr.stage = "open"
    /\ gr' = [gr EXCEPT !.stage = "reading", !.buflen = buflen,
                        !.depth = 0, !.n = 0]
    /\ UNCHANGED <<memVars, readVars>>

\* One run of the body of GatheringReader::read: the read on the current
\* Cursor, then either pop and the recursive call, or the return of n.
\* After a read with a nonempty buffer has returned 0 the caller stops
\* reading (stage "done").
Gather_body ==
    /\ gr.stage = "reading"
    /\ LET n == Cursor_read(gr, gr.buflen)
           data == SubSeq(gr.current, gr.pos + 1, gr.pos + n)
       IN  IF read_recurses(gr, n, gr.buflen)
           THEN gr' = [gr EXCEPT !.current = Head(gr.remainder),
                                 !.pos = 0,
                                 !.remainder = Tail(gr.remainder),
                                 !.depth = @ + 1]
           ELSE gr' = [gr EXCEPT !.pos = @ + n,
                                 !.n = n,
                                 !.out = @ \o data,
                                 !.stage = IF n = 0 /\ gr.buflen # 0
                                           THEN "done" ELSE "open"]
    /\ UNCHANGED <<memVars, readVars>>

InitGather ==
    /\ InitMem
    /\ file = <<>> /\ cursor = 0 /\ windows = FALSE
    /\ which = "none" /\ rp = NoReadPos /\ rs = NoReadSlice
    /\ last = NoLast /\ stage = "other" /\ total = 0
    /\ cr = [t \in Readers |-> NoThread]
    /\ pair = NoPair
    /\ \E buffers \in BufferLists :
          LET g == GatheringReader_new(buffers)
          IN  gr = [NoGather EXCEPT !.stage = "open", !.bufs = buffers,
                                    !.current = g.current, !.pos = g.pos,
                                    !.remainder = g.remainder]

NextGather ==
    \/ \E buflen \in 0..MaxBuf : Gather_read(buflen)
    \/ Gather_body

SpecGather == InitGather /\ [][NextGather]_vars

\* SpecGather where a read call that has begun runs on: the thread inside
\* read takes its next step.
SpecGatherFair == SpecGather /\ WF_vars(Gather_body)

(***************************************************************************)
(* Definitions shared by the claims about MemHandle.                       *)
(***************************************************************************)
Live == {h \in Handles : hstate[h] = "live"}

\* Number of live handles whose own level is lv.
CountAt(lv) == Cardinality({h \in Live : hadvice[h] = lv})

\* The highest-priority level requested by any live handle, baseline if none.
TopRequested ==
    IF \E h \in Live : hadvice[h] = Sequential THEN Sequential
    ELSE IF \E h \in Live : hadvice[h] = Random THEN Random
    ELSE Normal

\* The two 10-bit fields of the packed counter.
RandomField == advisors % (2 ^ FieldBits)
SequentialField == (advisors \div (2 ^ FieldBits)) % (2 ^ FieldBits)

(***************************************************************************)
(* C1: one at a time, an advise(level) call that changes the caller's      *)
(* level and succeeds returns the highest-priority level requested by any  *)
(* live handle after the call.                                             *)
(***************************************************************************)
C1_AdviseReturnsTopRequested ==
    (ret.kind = "ok" /\ ret.prior # ret.advice) => ret.val = TopRequested

\* B.advise(Random) has returned Sequential while A holds Sequential.
C1_Witness ==
    /\ ret.kind = "ok" /\ ret.h = 2 /\ ret.prior = Normal
    /\ ret.advice = Random /\ ret.val = Sequential
    /\ hstate[1] = "live" /\ hadvice[1] = Sequential

(***************************************************************************)
(* C2: between operations executed one at a time, each 10-bit field of the *)
(* packed counter is the number of live handles at that field's level      *)
(* (Random in bits 0-9, Sequential in bits 10-19) and no other bit is set: *)
(* handles at Normal are not counted.                                      *)
(***************************************************************************)
C2_FieldsCountLiveHandles ==
    AllIdle =>
        /\ RandomField = CountAt(Random)
        /\ SequentialField = CountAt(Sequential)
        /\ advisors = RandomField + SequentialField * (2 ^ FieldBits)

\* Three live handles, one at each level, one of them after a change.
C2_Witness ==
    /\ AllIdle /\ Live = Handles
    /\ CountAt(Random) = 1 /\ CountAt(Sequential) = 1 /\ CountAt(Normal) = 1
    /\ ret.kind = "ok" /\ ret.prior = Sequential /\ ret.advice = Random

(***************************************************************************)
(* C3: with concurrent calls on distinct handles, every successful         *)
(* compare-and-swap commits the call's decrement/increment applied to the  *)
(* value the counter held immediately before it, and once all calls have   *)
(* returned each field is the number of live handles at its level.         *)
(***************************************************************************)
C3_CasCommitsOnCurrentValue ==
    [][/\ \A h \in Handles :
            (pc[h] = "cas" /\ pc'[h] # "cas") =>
                advisors' = incr_advisors(decr_advisors(advisors, prior[h]),
                                          advice[h])
       /\ (AllIdle => /\ RandomField = CountAt(Random)
                      /\ SequentialField = CountAt(Sequential))'
      ]_vars

\* A compare-and-swap has failed and its call has retried, committed and
\* returned: all calls have returned, two handles at different levels.
C3_Witness ==
    /\ AllIdle /\ retried /\ ret.kind = "ok"
    /\ CountAt(Random) = 1 /\ CountAt(Sequential) = 1

(***************************************************************************)
(* C4: with concurrent calls by clones, clones being dropped included,     *)
(* every successful advise(level) returns a level >= level.                *)
(***************************************************************************)
C4_ResultAtLeastAdvice ==
    ret.kind = "ok" => ret.val >= ret.advice

\* advise(Random) has returned Sequential after a failed compare-and-swap,
\* while the other clone is being dropped.
C4_Witness ==
    /\ ret.kind = "ok" /\ ret.advice = Random /\ ret.val = Sequential
    /\ retried
    /\ \E h \in Handles : hstate[h] = "dropping"

(***************************************************************************)
(* C5: with concurrent advise and drop calls and every platform call       *)
(* succeeding (SpecConcOk), once                                           *)
(* all calls have returned the level last relayed to the operating system  *)
(* is the highest-priority level requested by any live handle.             *)
(***************************************************************************)
C5_OsIsTopRequested ==
    AllIdle => os = TopRequested

(***************************************************************************)
(* C6: threads that each own a ReadPos over the shared file, seek to their *)
(* own offset p and read a slice observe exactly the bytes at [p, p+len),  *)
(* in every interleaving; no reader's seek or read changes another         *)
(* reader's position or any shared cursor.                                 *)
(***************************************************************************)
\* What each thread has read so far is the file's content from its own p,
\* its position is its own p plus what it has read, and no thread finds an
\* end of file inside its slice.
ThreadsReadOwnBytes ==
    \A t \in Readers :
        /\ cr[t].pc # "eof"
        /\ cr[t].pc \in {"read", "done"} =>
              /\ cr[t].pos = cr[t].p + Len(cr[t].buf)
              /\ cr[t].buf = SubSeq(file, cr[t].p + 1,
                                    cr[t].p + Len(cr[t].buf))
        /\ cr[t].pc = "done" => Len(cr[t].buf) = ThreadLen(t)

\* The claim as stated: the File's own cursor, shared by the readers, is
\* never moved either.
C6_OwnBytesAndNoSharedCursorMoved ==
    ThreadsReadOwnBytes /\ cursor = Len(file)

\* Amended: the threads observe their own bytes and positions although the
\* platform's positioned read may move the File's cursor (cfg(windows)).
C6_EachThreadReadsItsOwnSlice == ThreadsReadOwnBytes

\* Thread 1 is done with the slice at p = 2 while thread 2 is in the
\* middle of its slice at p = 0, and the shared cursor has been moved.
C6_Witness ==
    /\ cr[1].pc = "done" /\ cr[1].p = 2 /\ Len(cr[1].buf) = 2
    /\ cr[2].pc = "read" /\ cr[2].p = 0 /\ Len(cr[2].buf) = 1
    /\ cursor # Len(file)

(***************************************************************************)
(* C7: a read on a ReadSlice over [start, end) never asks the capability   *)
(* for, and never returns, a byte at an absolute offset >= end: the        *)
(* request is cut to end - position bytes, and at position >= end the      *)
(* read returns 0 without calling the capability or moving the position.   *)
(***************************************************************************)
C7_ReadClippedToEnd ==
    (which = "slice" /\ last.op = "read") =>
        IF last.pos0 >= rs.end
        THEN /\ ~last.called
             /\ last.kind = "ok" /\ last.val = 0
             /\ rs.pos = last.pos0
        ELSE /\ last.called
             /\ last.reqOff = last.pos0
             /\ last.reqLen = Min(last.arg, rs.end - last.pos0)
             /\ last.reqOff + last.reqLen <= rs.end
             /\ last.pos0 + last.val <= rs.end
             /\ rs.pos = last.pos0 + last.val
             /\ last.data = SubSeq(file, last.pos0 + 1, last.pos0 + last.val)

\* A read with a buffer longer than what is left before end, on a file
\* that goes on after end, has returned exactly the bytes up to end.
C7_Witness ==
    /\ which = "slice" /\ last.op = "read" /\ last.kind = "ok"
    /\ last.pos0 < rs.end /\ last.arg > rs.end - last.pos0
    /\ Len(file) > rs.end
    /\ last.val = rs.end - last.pos0 /\ rs.pos = rs.end

(***************************************************************************)
(* C8: on a fresh ReadSlice over [start, end) of a resource holding at     *)
(* least end bytes, reads with nonempty buffers continued until one        *)
(* returns 0 return len() = end - start bytes in total and leave tell() at *)
(* len(); the read that returned 0 and every further read return 0.        *)
(***************************************************************************)
C8_DrainReturnsLen ==
    (which = "slice" /\ stage = "drained" /\ Len(file) >= rs.end) =>
        /\ total = ReadSlice_len(rs)
        /\ ReadSlice_tell(rs) = ReadSlice_len(rs)
        /\ last.op = "read" => (last.kind = "ok" /\ last.val = 0)

\* A slice of at least two bytes, not at the start of a longer file, has
\* been read to its end.
C8_Witness ==
    /\ which = "slice" /\ stage = "drained"
    /\ last.op = "read" /\ last.pos0 = rs.end
    /\ rs.start > 0 /\ Len(file) > rs.end
    /\ total >= 2 /\ total = rs.end - rs.start

(***************************************************************************)
(* C9: a read on a ReadPos of logical length L issued at a position at or  *)
(* past L returns 0 without error, whatever the real size of the           *)
(* resource (a failure of the capability itself aside).                    *)
(***************************************************************************)
C9_ReadAtLengthReturnsZero ==
    (which = "pos" /\ last.op = "read" /\ last.pos0 >= rp.length
     /\ last.kind # "err_io") =>
        (last.kind = "ok" /\ last.val = 0)

\* Amended: the read returns what the capability returns at the position:
\* 0 exactly when the buffer is empty or the position is at or past the
\* real end of the resource, whatever L; the position advances by it.
C9_ReadReturnsZeroOnlyAtRealEnd ==
    (which = "pos" /\ last.op = "read") =>
        /\ last.kind \in {"ok", "err_io"}
        /\ last.kind = "ok" =>
              /\ last.val = 0 <=> (last.arg = 0 \/ last.pos0 >= Len(file))
              /\ rp.pos = last.pos0 + last.val
              /\ last.data = SubSeq(file, last.pos0 + 1, last.pos0 + last.val)

\* A read at a position past L has returned bytes of a longer resource.
C9_Witness ==
    /\ which = "pos" /\ last.op = "read" /\ last.kind = "ok"
    /\ last.pos0 > rp.length /\ last.val > 0

(***************************************************************************)
(* C10: a seek from End or Current whose origin plus a non-negative offset *)
(* exceeds the unsigned range fails with the overflow error                *)
(* (ErrorKind::Other), one whose negative offset is larger in magnitude    *)
(* than the origin fails with ErrorKind::InvalidInput, and ReadSlice       *)
(* seek(Start(p)) fails with the overflow error when start + p exceeds the *)
(* range.                                                                  *)
(***************************************************************************)
SeekOrigin ==
    IF last.whence = "End"
    THEN (IF which = "pos" THEN rp.length ELSE rs.end)
    ELSE last.pos0

C10_SeekErrorKinds ==
    last.op = "seek" =>
        /\ (/\ last.whence \in {"End", "Current"}
            /\ last.arg >= 0 /\ SeekOrigin + last.arg > U64Max)
              => last.kind = "other"
        /\ (/\ last.whence \in {"End", "Current"}
            /\ last.arg < 0 /\ 0 - last.arg > SeekOrigin)
              => last.kind = "invalid"
        /\ (/\ which = "slice" /\ last.whence = "Start"
            /\ rs.start + last.arg > U64Max)
              => last.kind = "other"

(***************************************************************************)
(* C11: whenever seek on a ReadPos or ReadSlice returns an error (negative *)
(* result, overflow, or for ReadSlice a position before start), the        *)
(* reader's position, and so tell(), is the same as before the call.       *)
(***************************************************************************)
ReaderPos == IF which = "pos" THEN rp.pos ELSE rs.pos

C11_FailedSeekKeepsPosition ==
    (last.op = "seek" /\ last.kind \in {"invalid", "other"}) =>
        ReaderPos = last.pos0

\* A ReadSlice in the middle of its range has refused a seek to a position
\* of the file that lies before its start.
C11_Witness ==
    /\ which = "slice" /\ last.op = "seek" /\ last.kind = "invalid"
    /\ last.whence = "Current" /\ last.arg < 0
    /\ last.pos0 + last.arg >= 0
    /\ last.pos0 > rs.start /\ ReadSlice_tell(rs) > 0

(***************************************************************************)
(* C12: ReadSlice::seek resolves Start(p) to start + p, End(o) to end + o   *)
(* and Current(o) to position + o; a resolved position below start fails   *)
(* with ErrorKind::InvalidInput, any other one (beyond end too, within the  *)
(* unsigned range) becomes the position and the call returns it minus       *)
(* start.                                                                   *)
(***************************************************************************)
Resolved ==
    CASE last.whence = "Start" -> rs.start + last.arg
      [] last.whence = "End" -> rs.end + last.arg
      [] last.whence = "Current" -> last.pos0 + last.arg
      [] OTHER -> 0

C12_SliceSeekResolution ==
    (which = "slice" /\ last.op = "seek" /\ Resolved <= U64Max) =>
        IF Resolved < rs.start
        THEN last.kind = "invalid"
        ELSE /\ last.kind = "ok"
             /\ rs.pos = Resolved
             /\ last.val = Resolved - rs.start

(***************************************************************************)
(* C13: for a ReadSlice over [s, e) and a <= b with s + b <= e, the reader *)
(* returned by subslice(a, b) gives the same results (bytes read, returned *)
(* positions, errors, tell, len) as an independently constructed ReadSlice *)
(* over [s + a, s + b), for every sequence of reads and seeks.             *)
(***************************************************************************)
C13_SubsliceActsAsIndependentSlice ==
    pair.stage = "sub" =>
        /\ pair.same
        /\ ReadSlice_tell(pair.a) = ReadSlice_tell(pair.b)
        /\ ReadSlice_len(pair.a) = ReadSlice_len(pair.b)

\* subslice(1, 3) of a slice that starts at 1 and its twin over [2, 4) have
\* been read to their end, after reads and seeks.
C13_Witness ==
    /\ pair.stage = "sub" /\ pair.who = "read"
    /\ pair.args[1] = 1 /\ pair.args[3] = 1 /\ pair.args[4] = 3
    /\ ReadSlice_tell(pair.a) = 2 /\ pair.a.end <= Len(file)

(***************************************************************************)
(* C14: subslice(a, b) on a parent over [s, e) panics whenever a > b,      *)
(* s + b > e, or s + a or s + b overflows; ReadSlice::new(start, end)      *)
(* panics whenever start > end; they return a reader otherwise, so no      *)
(* ReadSlice with start > end or reaching outside its parent exists.       *)
(***************************************************************************)
SubsliceOutside(s, e, a, b) ==
    a > b \/ s + b > e \/ s + a > U64Max \/ s + b > U64Max

C14_BadRangesPanic ==
    /\ pair.stage = "parent" => pair.a.start <= pair.a.end
    /\ (pair.stage = "panicked" /\ pair.who = "new") =>
          pair.args[1] > pair.args[2]
    /\ (pair.stage = "panicked" /\ pair.who = "subslice") =>
          SubsliceOutside(pair.args[1], pair.args[2], pair.args[3],
                          pair.args[4])
    /\ pair.stage = "sub" =>
          /\ ~SubsliceOutside(pair.args[1], pair.args[2], pair.args[3],
                              pair.args[4])
          /\ pair.a.start <= pair.a.end
          /\ pair.args[1] <= pair.a.start /\ pair.a.end <= pair.args[2]

\* subslice has panicked on an ordered range that does not overflow but
\* ends beyond its parent.
C14_Witness ==
    /\ pair.stage = "panicked" /\ pair.who = "subslice"
    /\ pair.args[3] <= pair.args[4]
    /\ pair.args[1] + pair.args[4] <= U64Max
    /\ pair.args[1] + pair.args[4] > pair.args[2]

(***************************************************************************)
(* C15: cloning a ReadPos or ReadSlice at any position yields a reader     *)
(* with the same length (or start and end) at position 0 (or start) and    *)
(* leaves the original's position; afterwards a read or seek on either     *)
(* reader never changes the other's position, and every read returns the   *)
(* file's bytes at the reading reader's own position.                      *)
(***************************************************************************)
C15_CloneIsFreshAndIndependent ==
    [][/\ (pair.stage = "one" /\ pair'.stage = "two") =>
            /\ pair'.a = pair.a
            /\ which = "pos" =>
                  (pair'.b.pos = 0 /\ pair'.b.length = pair.a.length)
            /\ which = "slice" =>
                  /\ pair'.b.pos = pair.a.start
                  /\ pair'.b.start = pair.a.start
                  /\ pair'.b.end = pair.a.end
       /\ (pair.stage = "two" /\ pair'.who = "a") => pair'.b = pair.b
       /\ (pair.stage = "two" /\ pair'.who = "b") => pair'.a = pair.a
       /\ pair'.same
      ]_vars

\* test_interleaved: the original has read two bytes, was cloned, the
\* clone has read the same two bytes, and the original the next two.
C15_Witness ==
    /\ which = "pos" /\ pair.stage = "two" /\ pair.who = "a" /\ pair.same
    /\ pair.a.pos = 4 /\ pair.b.pos = 2 /\ Len(file) >= 4

(***************************************************************************)
(* C16: cloning a MemHandle at any level yields a handle at Normal; the    *)
(* clone operation leaves the shared counter and every other handle's      *)
(* level, and makes no platform call; the clone is counted only once it    *)
(* has advised a level other than Normal.                                  *)
(***************************************************************************)
Counted == {h \in Live : hadvice[h] # Normal}

C16_CloneStartsNormalUncounted ==
    [][/\ \A c \in Handles :
            (hstate[c] = "unborn" /\ hstate'[c] = "live") =>
                /\ hadvice'[c] = Normal
                /\ \A h \in Handles \ {c} : hadvice'[h] = hadvice[h]
                /\ advisors' = advisors /\ os' = os /\ pc' = pc
       /\ (AllIdle => RandomField + SequentialField = Cardinality(Counted))'
      ]_vars

\* A handle at Sequential has been cloned twice: two handles at Normal,
\* one handle counted.
C16_Witness ==
    /\ AllIdle /\ Live = Handles /\ ret = NoRet
    /\ CountAt(Sequential) = 1 /\ CountAt(Normal) = 2
    /\ RandomField = 0 /\ SequentialField = 1

(***************************************************************************)
(* C17: dropping a handle whose level is not Normal makes the counter      *)
(* transition of advise(Normal): its level's field is decremented, the     *)
(* platform is advised when the top-most level changes, and a failure of   *)
(* that call is discarded; dropping a handle at Normal leaves the counter  *)
(* and makes no platform call.  Hence no advise that changes a level       *)
(* reports Sequential once no live handle is at Sequential.                *)
(***************************************************************************)
C17_DropActsAsAdviseNormal ==
    [][/\ \A h \in Handles :
            /\ (hstate[h] = "live" /\ hstate'[h] = "dead") =>
                  /\ hadvice[h] = Normal
                  /\ advisors' = advisors /\ os' = os /\ pc' = pc
            /\ (hstate[h] = "live" /\ hstate'[h] = "dropping") =>
                  /\ hadvice[h] # Normal
                  /\ prior'[h] = hadvice[h] /\ advice'[h] = Normal
            /\ (hstate[h] = "dropping" /\ pc[h] = "cas" /\ pc'[h] # "cas") =>
                  /\ advisors' = decr_advisors(advisors, prior[h])
                  /\ (top_most(advisors') # top_most(advisors))
                        <=> (pc'[h] = "madvise" /\ new_top'[h] = top_most(advisors'))
            /\ (hstate[h] = "dropping" /\ pc[h] = "madvise") =>
                  (hstate'[h] = "dead" /\ ret' = NoRet
                   /\ advisors' = advisors /\ os' \in {os, new_top[h]})
       /\ ((ret.kind = "ok" /\ ret.prior # ret.advice
            /\ CountAt(Sequential) = 0) => ret.val # Sequential)'
      ]_vars

\* The drop of the only handle at Sequential has decremented the counter
\* and is about to advise the platform of Random, the level of the other
\* handle.
C17_Witness ==
    \E h \in Handles :
        /\ hstate[h] = "dropping" /\ prior[h] = Sequential
        /\ pc[h] = "madvise" /\ new_top[h] = Random
        /\ SequentialField = 0 /\ RandomField = 1 /\ os = Sequential

C19_EveryOkReturnsTopRequested ==
    ret.kind = "ok" => ret.val = TopRequested

(***************************************************************************)
(* C20: when the platform call made by advise fails, advise returns an     *)
(* error and the shared counter keeps the value committed for the new      *)
(* level: it is not rolled back.                                           *)
(***************************************************************************)
C20_FailureKeepsCounter ==
    [][ret'.kind = "err" =>
            /\ pc[ret'.h] = "madvise"
            /\ advisors' = advisors /\ os' = os
            /\ hadvice'[ret'.h] = ret'.advice
            /\ RandomField' = CountAt(Random)'
            /\ SequentialField' = CountAt(Sequential)'
      ]_vars

\* advise(Sequential) on the only handle has failed at the platform call:
\* the counter holds one Sequential advisor, the platform was not advised.
C20_Witness ==
    /\ ret.kind = "err" /\ ret.prior = Normal /\ ret.advice = Sequential
    /\ SequentialField = 1 /\ RandomField = 0 /\ os = Normal

(***************************************************************************)
(* Definitions shared by the claims about the counter at its capacity.     *)
(***************************************************************************)
\* The other of the two counted levels.
OtherLevel(lv) == IF lv = Random THEN Sequential ELSE Random

\* The 10-bit field of level lv in the packed value a.
FieldOf(a, lv) ==
    IF lv = Random THEN a % (2 ^ FieldBits)
    ELSE (a \div (2 ^ FieldBits)) % (2 ^ FieldBits)

\* a holds nothing but its two fields.
WellPacked(a) ==
    a = FieldOf(a, Random) + FieldOf(a, Sequential) * (2 ^ FieldBits)

\* Live handles at level lv, the crowd's included.
SatCount(lv) == CountAt(lv) + crowd[lv]

\* The highest-priority level requested by any live handle, the crowd's
\* included.
SatTop ==
    IF SatCount(Sequential) > 0 THEN Sequential
    ELSE IF SatCount(Random) > 0 THEN Random
    ELSE Normal

\* Handle h's compare-and-swap commits in this step.
Commits(h) == pc[h] = "cas" /\ pc'[h] # "cas"

(***************************************************************************)
(* C21: when the field of a level already holds 1023, the committing       *)
(* exchange of a further handle's advise to that level leaves the field at *)
(* 1023, leaves the other field as the decrement for the caller's prior    *)
(* level made it (no carry), keeps the counter within its two fields (no   *)
(* wrap), and the call goes on as any other: it returns Ok at once when    *)
(* the top-most level did not change, and otherwise makes the platform     *)
(* call.                                                                   *)
(***************************************************************************)
C21_FullFieldStaysFull ==
    [][\A h \in Handles :
          (/\ Commits(h)
           /\ advice[h] # Normal
           /\ FieldOf(advisors, advice[h]) = FieldMax)
          => /\ FieldOf(advisors', advice[h]) = FieldMax
             /\ FieldOf(advisors', OtherLevel(advice[h]))
                  = IF prior[h] = OtherLevel(advice[h])
                       /\ FieldOf(advisors, prior[h]) > 0
                    THEN FieldOf(advisors, prior[h]) - 1
                    ELSE FieldOf(advisors, OtherLevel(advice[h]))
             /\ WellPacked(advisors')
             /\ IF top_most(advisors') = top_most(advisors)
                THEN /\ pc'[h] = "idle"
                     /\ ret'.kind = "ok" /\ ret'.h = h
                ELSE pc'[h] = "madvise"]_vars

\* A handle's advise has just returned Ok while more handles are at its
\* level than the field can count, and the field is full.
C21_Witness ==
    /\ ret.kind = "ok"
    /\ ret.advice # Normal
    /\ ret.prior # ret.advice
    /\ SatCount(ret.advice) > FieldMax
    /\ FieldOf(advisors, ret.advice) = FieldMax

(***************************************************************************)
(* C22: once more handles than a field can count have requested a level,   *)
(* then through every later sequence of advise and drop calls the counter  *)
(* holds nothing but its two fields, neither field exceeds the number of   *)
(* live handles at its level, and so the effective level is never one that *)
(* no live handle requests; it can be lower than the highest requested     *)
(* level, because the requests beyond the capacity were not counted.       *)
(***************************************************************************)
C22_CounterNeverOvercounts ==
    AllIdle =>
        /\ WellPacked(advisors)
        /\ \A lv \in {Random, Sequential} :
              /\ FieldOf(advisors, lv) <= FieldMax
              /\ FieldOf(advisors, lv) <= SatCount(lv)
        /\ top_most(advisors) <= SatTop

\* The statement as made: the effective level is the highest-priority level
\* requested by any live handle.
C22_EffectiveLevelIsTopRequested ==
    AllIdle => top_most(advisors) = SatTop

\* After the capacity was exceeded and handles were dropped, a live handle
\* is at a level whose field is 0.
C22_Witness ==
    /\ AllIdle
    /\ \E h \in Live :
          /\ hadvice[h] # Normal
          /\ FieldOf(advisors, hadvice[h]) = 0

(***************************************************************************)
(* C30: for every packed counter value and level, decr_advisors and        *)
(* incr_advisors return a value that differs from their argument in the    *)
(* field of the given level only: decr_advisors makes that field one less, *)
(* or leaves it when it is 0; incr_advisors makes it one more, or leaves   *)
(* it when it is 1023; for Normal both return the counter unchanged.       *)
(***************************************************************************)
C30_OnlyTheLevelsFieldChanges ==
    calc.stage = "out" =>
        IF calc.lv = Normal
        THEN calc.out = calc.a
        ELSE /\ WellPacked(calc.out)
             /\ FieldOf(calc.out, OtherLevel(calc.lv))
                  = FieldOf(calc.a, OtherLevel(calc.lv))
             /\ FieldOf(calc.out, calc.lv)
                  = IF calc.f = "decr"
                    THEN (IF FieldOf(calc.a, calc.lv) = 0 THEN 0
                          ELSE FieldOf(calc.a, calc.lv) - 1)
                    ELSE (IF FieldOf(calc.a, calc.lv) = FieldMax
                          THEN FieldMax
                          ELSE FieldOf(calc.a, calc.lv) + 1)

\* decr_advisors was applied for Sequential to a counter whose Sequential
\* field is 0 and whose Random field is not.
C30_Witness ==
    /\ calc.stage = "out" /\ calc.f = "decr"
    /\ calc.lv = Sequential
    /\ FieldOf(calc.a, Sequential) = 0
    /\ FieldOf(calc.a, Random) > 0

(***************************************************************************)
(* C29: an advise or drop call makes at most one platform call.  The step  *)
(* in which its exchange commits goes on to the platform call exactly when *)
(* top_most of the committed value differs from top_most of the value it   *)
(* replaced, and the call is then made with the new top-most level; when   *)
(* they are equal the call ends in that step and advise returns Ok with    *)
(* the unchanged top-most level.  The platform is told of a level only by  *)
(* a call at that point, which ends with it.                               *)
(***************************************************************************)
C29_PlatformCalledOnTopChange ==
    [][/\ \A h \in Handles :
             /\ Commits(h) =>
                   /\ os' = os
                   /\ IF top_most(advisors') # top_most(advisors)
                      THEN /\ pc'[h] = "madvise"
                           /\ new_top'[h] = top_most(advisors')
                           /\ ret' = NoRet
                      ELSE /\ pc'[h] = "idle"
                           /\ hstate[h] = "live" =>
                                 /\ ret'.kind = "ok" /\ ret'.h = h
                                 /\ ret'.val = top_most(advisors)
             /\ pc'[h] = "madvise" => pc[h] \in {"cas", "madvise"}
             /\ (pc[h] = "madvise" /\ pc'[h] # "madvise") =>
                   /\ pc'[h] = "idle"
                   /\ os' \in {os, new_top[h]}
                   /\ advisors' = advisors
       /\ os' # os =>
             \E h \in Handles :
                /\ pc[h] = "madvise" /\ pc'[h] = "idle"
                /\ os' = new_top[h]]_vars

\* An advise that changed its handle's level has returned Ok without a
\* platform call: the level returned is another handle's, and the platform
\* has it.
C29_Witness ==
    /\ ret.kind = "ok"
    /\ ret.prior # ret.advice
    /\ ret.val # ret.advice
    /\ ret.val = top_most(advisors)
    /\ os = ret.val
    /\ retried

(***************************************************************************)
(* C28: no call waits for a lock: a thread inside a call can always take   *)
(* its next step.  Under fair scheduling the calls make progress: a failed *)
(* exchange reloads, an exchange whose expected value is current commits   *)
(* unless another call's exchange commits first (a failure that is not     *)
(* spurious means that the counter was changed in between), and the        *)
(* platform call returns.  So a call that never returns is overtaken and   *)
(* reloads again and again, which takes other threads that keep making     *)
(* calls: for each handle, at infinitely many instants it is outside any   *)
(* call or in the loop with a stale expected value, at infinitely many     *)
(* instants it is outside any call or in the loop with the current one,    *)
(* and at infinitely many instants it is outside any call or another       *)
(* handle is inside one.  Every call returns once the other threads stop   *)
(* making calls.                                                           *)
(***************************************************************************)
C28_CallReturnsUnlessOvertaken ==
    /\ [](\A h \in ConcHandles : pc[h] # "idle" => ENABLED Thread_step(h))
    /\ \A h \in ConcHandles :
          /\ []<>(\/ pc[h] = "idle"
                  \/ pc[h] = "cas" /\ adv[h] # advisors)
          /\ []<>(\/ pc[h] = "idle"
                  \/ pc[h] = "cas" /\ adv[h] = advisors)
          /\ []<>(\/ pc[h] = "idle"
                  \/ \E g \in ConcHandles \ {h} : pc[g] # "idle")

\* The statement as made: under fair scheduling every call eventually
\* returns.
C28_EveryCallReturns ==
    \A h \in ConcHandles : []<>(pc[h] = "idle")

\* A handle's exchange has failed and been retried, and it is in the loop
\* again with a stale value, overtaken by another handle's exchange.
C28_Witness ==
    /\ retried
    /\ \E h \in ConcHandles :
          /\ pc[h] = "cas"
          /\ adv[h] # advisors

(***************************************************************************)
(* C23: for all start <= end, the ReadSlice that ReadSlice::new(start,     *)
(* end) returns has tell() = 0 and len() = end - start, and is_empty()     *)
(* exactly when start = end; the ReadPos that ReadPos::new(length) returns *)
(* has tell() = 0 and len() = length.                                      *)
(***************************************************************************)
C23_FreshReaders ==
    /\ pair.stage = "parent" =>
          /\ ReadSlice_tell(pair.a) = 0
          /\ ReadSlice_len(pair.a) = pair.args[2] - pair.args[1]
          /\ ReadSlice_is_empty(pair.a) <=> (pair.args[1] = pair.args[2])
    /\ (pair.stage = "pos" /\ pair.who = "") =>
          /\ ReadPos_tell(pair.a) = 0
          /\ ReadPos_len(pair.a) = pair.args[1]

\* A fresh empty ReadSlice that does not start at 0.
C23_Witness ==
    /\ pair.stage = "parent"
    /\ pair.args[1] = pair.args[2] /\ pair.args[1] > 1
    /\ ReadSlice_is_empty(pair.a)

(***************************************************************************)
(* C24: when tell() returned t, then after any further seeks and reads     *)
(* seek(SeekFrom::Start(t)) returns Ok(t), and a read with a buffer of any *)
(* size then has exactly the outcomes that the same read had when tell was *)
(* called: the same request to the capability and, for the same number of  *)
(* bytes returned, the same bytes and the same position afterwards.        *)
(***************************************************************************)
C24_SeekToTellReadsTheSame ==
    pair.stage \in {"back", "lost"} =>
        /\ pair.stage = "back"
        /\ pair.a = pair.b
        /\ \A n \in 0..MaxBuf :
              PairReadResults(pair.a, n) = PairReadResults(pair.b, n)

\* A ReadSlice that does not start at 0 was taken away from the position
\* where tell returned t > 0 and has come back; a read there returns bytes.
C24_Witness ==
    /\ pair.stage = "back" /\ which = "slice"
    /\ ~pair.same
    /\ pair.a.start > 0 /\ pair.args[1] > 0
    /\ \E res \in PairReadResults(pair.a, MaxBuf) : res.n > 1

(***************************************************************************)
(* C25: for a ReadPos with logical length L, seek(Start(p)) sets the       *)
(* position to p for every p, seek(End(o)) sets it to L + o and            *)
(* seek(Current(o)) to position + o whenever that is a position (within    *)
(* 0..u64::MAX), each returning the new position; positions beyond L are   *)
(* accepted.                                                               *)
(***************************************************************************)
PosResolved ==
    CASE last.whence = "Start" -> last.arg
      [] last.whence = "End" -> rp.length + last.arg
      [] last.whence = "Current" -> last.pos0 + last.arg
      [] OTHER -> 0

C25_PosSeekSetsPosition ==
    (which = "pos" /\ last.op = "seek" /\ PosResolved \in U64) =>
        /\ last.kind = "ok"
        /\ last.val = PosResolved
        /\ rp.pos = PosResolved

(***************************************************************************)
(* C26: tell() leaves the reader as it is and returns the value that       *)
(* seek(SeekFrom::Current(0)) returns in that state, which succeeds and    *)
(* leaves the position: the position, relative to start for a ReadSlice.   *)
(***************************************************************************)
C26_TellIsSeekCurrentZero ==
    last.op = "tell" =>
        \A checks \in OverflowChecks :
           LET from == [whence |-> "Current", off |-> 0]
               res == IF which = "pos"
                      THEN ReadPos_seek_result(rp, from, checks)
                      ELSE ReadSlice_seek_result(rs, from, checks)
           IN  /\ res.kind = "ok"
               /\ res.val = last.val
               /\ res.pos = last.pos0
               /\ last.pos0 = IF which = "pos" THEN rp.pos ELSE rs.pos
               /\ last.val = IF which = "pos" THEN rp.pos
                             ELSE rs.pos - rs.start

\* tell() was called on a ReadSlice that does not start at 0 and is away
\* from its start, and on a ReadPos beyond its length.
C26_Witness ==
    /\ last.op = "tell"
    /\ \/ which = "slice" /\ rs.start > 0 /\ last.val > 0
       \/ which = "pos" /\ rp.pos > rp.length /\ rp.length > 0

(***************************************************************************)
(* C27: ReadPos::subslice(a, b) returns ReadSlice::new(a, b), a ReadSlice  *)
(* over the absolute range [a, b) positioned at a, for every a <= b, also  *)
(* when b is beyond the ReadPos's length; it leaves the ReadPos as it is;  *)
(* it panics exactly when a > b.                                           *)
(***************************************************************************)
C27_PosSubslice ==
    [][(pair.stage = "pos" /\ pair'.stage # "pos") =>
          /\ pair'.a = pair.a
          /\ pair'.stage = IF pair'.args[1] <= pair'.args[2]
                           THEN "possub" ELSE "pospanicked"
          /\ pair'.stage = "possub" =>
                pair'.b = [start |-> pair'.args[1], pos |-> pair'.args[1],
                           end |-> pair'.args[2]]]_vars

\* A ReadPos away from 0 has returned a subslice that ends beyond the
\* ReadPos's length.
C27_Witness ==
    /\ pair.stage = "possub"
    /\ pair.a.pos > 0
    /\ pair.args[2] > pair.a.length
    /\ pair.b.start > 0 /\ pair.b.end > pair.b.start

(***************************************************************************)
(* C31: for every packed counter value, top_most returns Sequential when   *)
(* the Sequential field is not 0, otherwise Random when the Random field   *)
(* is not 0, otherwise Normal.                                             *)
(***************************************************************************)
C31_TopMostIsHighestNonzeroField ==
    calc.stage = "top" =>
        calc.out = IF FieldOf(calc.a, Sequential) > 0 THEN Sequential
                   ELSE IF FieldOf(calc.a, Random) > 0 THEN Random
                   ELSE Normal

\* top_most was applied to a counter whose two fields are both not 0, the
\* Random field the larger.
C31_Witness ==
    /\ calc.stage = "top"
    /\ FieldOf(calc.a, Sequential) > 0
    /\ FieldOf(calc.a, Random) > FieldOf(calc.a, Sequential)
    /\ calc.out = Sequential

(***************************************************************************)
(* C32: a read on a ReadPos or ReadSlice calls the capability at most      *)
(* once, at the reader's absolute position: a ReadPos always, with the     *)
(* whole buffer; a ReadSlice when its position is before end, and          *)
(* otherwise it returns Ok(0) without a call.  The position then advances  *)
(* by exactly the number of bytes returned; an error of the capability is  *)
(* what the read returns, and the position is then as before.              *)
(***************************************************************************)
C32_ReadDelegatesAndAdvances ==
    last.op = "read" =>
        /\ last.called <=> (which = "pos" \/ last.pos0 < rs.end)
        /\ last.called => last.reqOff = last.pos0
        /\ ~last.called => (last.kind = "ok" /\ last.val = 0)
        /\ last.kind \in {"ok", "err_io"}
        /\ ReaderPos = last.pos0 + last.val
        /\ last.kind = "err_io" =>
              (last.called /\ last.val = 0 /\ ReaderPos = last.pos0)

\* The statement as made: every read calls the capability.
C32_EveryReadCallsTheCapability ==
    last.op = "read" =>
        /\ last.called
        /\ last.reqOff = last.pos0
        /\ ReaderPos = last.pos0 + last.val
        /\ last.kind = "err_io" => ReaderPos = last.pos0

\* A ReadSlice that does not start at 0, away from its start and before
\* its end, has returned the capability's error.
C32_Witness ==
    /\ which = "slice" /\ last.op = "read"
    /\ last.kind = "err_io" /\ last.called
    /\ last.pos0 > rs.start /\ last.pos0 < rs.end
    /\ rs.start > 0

(***************************************************************************)
(* C33: ReadSlice::pread(buf, offset) takes offset as relative to start.   *)
(* When start + offset is at or beyond end, also when the sum does not fit *)
(* in 64 bits, it returns Ok(0) without calling the capability; otherwise  *)
(* it calls the capability at the absolute offset start + offset with the  *)
(* buffer cut to end - (start + offset), so that no byte at or after end   *)
(* is asked for or returned.  The reader's position is never changed.      *)
(***************************************************************************)
C33_PreadIsRelativeAndClipped ==
    last.op = "pread" =>
        LET abs == rs.start + pair.args[1]
        IN  /\ rs.pos = last.pos0
            /\ IF abs >= rs.end
               THEN /\ ~last.called
                    /\ last.kind = "ok" /\ last.val = 0
               ELSE /\ last.called
                    /\ last.reqOff = abs
                    /\ last.reqLen = Min(last.arg, rs.end - abs)
                    /\ abs + last.val <= rs.end
                    /\ last.data = SubSeq(file, abs + 1, abs + last.val)

\* A ReadSlice that does not start at 0, positioned elsewhere, was asked
\* by pread for more bytes than lie between start + offset and end, over a
\* file that goes on after end, and has returned the bytes up to end.
C33_Witness ==
    /\ last.op = "pread" /\ last.kind = "ok"
    /\ rs.start > 0 /\ pair.args[1] > 0
    /\ rs.pos # rs.start + pair.args[1]
    /\ last.arg > rs.end - (rs.start + pair.args[1])
    /\ last.val = rs.end - (rs.start + pair.args[1])
    /\ last.val > 0
    /\ Len(file) > rs.end

(***************************************************************************)
(* C34: seek(End(o)) and seek(Current(o)) on a ReadPos or ReadSlice, for   *)
(* every signed offset o, the most negative included, return either the    *)
(* exact position origin + o (relative to start for a ReadSlice), which is *)
(* then the reader's position, or an error; the call never aborts and no   *)
(* wrapped position is returned or set.                                    *)
(***************************************************************************)
C34_RelativeSeeksAreOverflowChecked ==
    (last.op = "seek" /\ last.whence \in {"End", "Current"}) =>
        /\ last.kind \in {"ok", "invalid", "other"}
        /\ last.kind = "ok" =>
              /\ SeekOrigin + last.arg \in U64
              /\ ReaderPos = SeekOrigin + last.arg
              /\ last.val = IF which = "pos" THEN ReaderPos
                            ELSE ReaderPos - rs.start

(***************************************************************************)
(* C35: when threads call advise on the same handle concurrently, then     *)
(* whenever all their calls have returned, the counter counts the handle   *)
(* once at the level the handle then has, and not at all when that level   *)
(* is Normal.                                                              *)
(***************************************************************************)
C35_SharedHandleCountedOnce ==
    (\A t \in Threads : pc[t] = "idle") =>
        advisors = incr_advisors(0, hadvice[1])

(***************************************************************************)
(* C36: when advise(level) has returned the platform's error, the handle's *)
(* own level is level already; the same handle's advise(level) called next *)
(* returns Ok(level) at once, without touching the counter and without a   *)
(* platform call; and the platform is advised again only by a call whose   *)
(* exchange changed the top-most level of the counter.                     *)
(***************************************************************************)
C36_RefusedAdviceIsNotRepeated ==
    /\ [](ret.kind = "err" => hadvice[ret.h] = ret.advice)
    /\ [][/\ \A h \in Handles :
               (/\ ret.kind = "err" /\ ret.h = h
                /\ MemHandle_advise(h, ret.advice))
               => /\ ret' = OkRet(h, ret.advice, ret.advice, ret.advice)
                  /\ pc'[h] = "idle"
                  /\ advisors' = advisors
                  /\ os' = os
          /\ \A h \in Handles :
               (pc'[h] = "madvise" /\ pc[h] # "madvise")
               => top_most(advisors') # top_most(advisors)
          /\ os' # os => \E h \in Handles : pc[h] = "madvise"]_vars

\* The only handle has repeated advise(Sequential) after the platform had
\* refused it: the call has returned Ok(Sequential), and the platform is
\* still at Normal.
C36_Witness ==
    /\ ret = OkRet(1, Sequential, Sequential, Sequential)
    /\ \A h \in Handles \ {1} : hstate[h] = "unborn"
    /\ advisors = Shl(1, FieldBits)
    /\ os = Normal

(***************************************************************************)
(* C37: every ReadSlice made by new, subslice or clone and then read and   *)
(* sought, with seeks that succeed and seeks that fail, has start <= end   *)
(* and start <= position, so that tell() = position - start and len() =    *)
(* end - start are computed without underflow; and a read never takes the  *)
(* position beyond end: a position beyond end after a read was there       *)
(* before it.                                                              *)
(***************************************************************************)
SliceInRange(r) ==
    /\ r.start <= r.end
    /\ r.start <= r.pos
    /\ ReadSlice_tell(r) \in U64
    /\ ReadSlice_len(r) \in U64

C37_SliceStaysInRange ==
    /\ [](/\ pair.stage \in {"parent", "sub"} => SliceInRange(pair.a)
          /\ pair.stage \in {"sub", "possub"} => SliceInRange(pair.b))
    /\ [][(pair.stage = "sub" /\ pair'.who = "read") =>
             /\ pair'.a.pos > pair.a.end => pair'.a.pos = pair.a.pos
             /\ pair'.b.pos > pair.b.end => pair'.b.pos = pair.b.pos
             /\ pair'.a.pos >= pair.a.pos
             /\ pair'.b.pos >= pair.b.pos]_vars

\* A subslice that does not start at 0 was taken beyond its end by a seek
\* and then read.
C37_Witness ==
    /\ pair.stage = "sub" /\ pair.who = "read"
    /\ pair.a.start > 0
    /\ pair.a.pos > pair.a.end
    /\ pair.a.end > pair.a.start

(***************************************************************************)
(* C38: subslices compose.  When the range of a slice lies at offsets      *)
(* a..b within a first slice r, its subslice(c, d) has the start, end and  *)
(* position that r.subslice(a + c, a + d) has, which succeeds as well;     *)
(* whatever the positions of the slices.  With c <= d and a + d <= b the   *)
(* call does not panic.  So the range of every slice in a chain of         *)
(* subslices lies within the range of the first.                           *)
(***************************************************************************)
C38_SubslicesCompose ==
    /\ (pair.stage = "chain" /\ pair.who = "subslice") =>
          /\ pair.a = [start |-> pair.b.start + pair.args[1],
                       pos |-> pair.b.start + pair.args[1],
                       end |-> pair.b.start + pair.args[2]]
          /\ ReadSlice_subslice(pair.b, pair.args[1], pair.args[2])
               = [kind |-> "ok", r |-> pair.a]
    /\ pair.stage = "chain" =>
          /\ pair.b.start <= pair.a.start
          /\ pair.a.start <= pair.a.end
          /\ pair.a.end <= pair.b.end
    /\ pair.stage = "chainpanicked" =>
          ~(/\ pair.args[3] <= pair.args[4]
            /\ pair.args[1] + pair.args[4] <= pair.args[2])

\* A subslice of a subslice: the first slice does not start at 0, the
\* second was away from its start when the third was taken of it, and the
\* third starts after the second and ends before the first does.
C38_Witness ==
    /\ pair.stage = "chain" /\ pair.who = "subslice"
    /\ ~pair.same
    /\ pair.b.start > 0
    /\ pair.args[1] > 1
    /\ pair.a.end > pair.a.start
    /\ pair.a.end < pair.b.end

(***************************************************************************)
(* C39: over a resource of exactly L bytes, a ReadPos of length L and a    *)
(* ReadSlice over [0, L) given the same reads, seeks and tells stay at the *)
(* same position and return the same results (bytes, positions, errors,    *)
(* and the panic of a seek), with one exception: a read at a position at   *)
(* or beyond L asks the capability on the ReadPos, whose error, if it      *)
(* fails there, is returned, while the ReadSlice returns Ok(0) without     *)
(* asking.                                                                 *)
(***************************************************************************)
C39_SameUnlessCapabilityFailsPastEnd ==
    pair.stage = "duo" =>
        /\ pair.a.pos = pair.b.pos
        /\ pair.b.start = 0
        /\ pair.a.length = Len(file) /\ pair.b.end = Len(file)
        /\ pair.who # "" =>
              \/ pair.args[1] = pair.args[2]
              \/ /\ pair.who = "read"
                 /\ pair.a.pos >= pair.a.length
                 /\ pair.args[1] = [kind |-> "err_io", n |-> 0, data |-> <<>>]
                 /\ pair.args[2] = [kind |-> "ok", n |-> 0, data |-> <<>>]

\* The statement as made: every operation returns the same on both.
C39_SameResults ==
    (pair.stage = "duo" /\ pair.who # "") => pair.args[1] = pair.args[2]

\* Both readers, moved into the middle of a file of several bytes, have
\* returned the same short read of more than one byte.
C39_Witness ==
    /\ pair.stage = "duo" /\ pair.who = "read"
    /\ pair.args[1] = pair.args[2]
    /\ pair.args[1].kind = "ok" /\ pair.args[1].n > 1
    /\ pair.a.pos < pair.a.length
    /\ pair.a.pos > pair.args[1].n

(***************************************************************************)
(* C40: the reads of a GatheringReader, made with nonempty buffers until   *)
(* one returns 0, return the bytes of all its buffers in order and nothing *)
(* else, for any number of buffers, none included, and with empty buffers  *)
(* anywhere among them.  What the reads have returned so far is always the *)
(* beginning of that concatenation; a read with a nonempty buffer returns  *)
(* 0 only when all of it has been returned; every read call returns, after *)
(* running the body of read at most once more than there are buffers,      *)
(* each run after the first having taken a buffer off the remainder.       *)
(***************************************************************************)
C40_ReadsGatherAllBuffers ==
    /\ [](gr.stage # "none" =>
            /\ Len(gr.out) <= Len(Concat(gr.bufs))
            /\ gr.out = SubSeq(Concat(gr.bufs), 1, Len(gr.out))
            /\ gr.stage = "done" => gr.out = Concat(gr.bufs)
            /\ (gr.stage # "reading" /\ gr.n = 0 /\ gr.buflen # 0) =>
                  gr.out = Concat(gr.bufs)
            /\ gr.depth + Len(gr.remainder) < Len(gr.bufs) + 1)
    /\ [][(gr.stage = "reading" /\ gr'.stage = "reading") =>
             /\ Len(gr'.remainder) < Len(gr.remainder)
             /\ gr'.out = gr.out]_vars
    /\ (gr.stage = "reading") ~> (gr.stage # "reading")

\* Reads over three buffers, the first and the second of them empty, have
\* come to the end, one read having passed over both empty buffers.
C40_Witness ==
    /\ gr.stage = "done"
    /\ Len(gr.bufs) = 3
    /\ gr.bufs[1] = <<>> /\ gr.bufs[2] = <<>>
    /\ Len(gr.out) = MaxChunk

====
